---------------------------- MODULE Spec2Model ----------------------------
(***************************************************************************)
(* Job lifecycle of the academic-reader workers.                           *)
(*                                                                         *)
(*   Spec       converter/app: ProcessManager (registry, process handles,  *)
(*              queues, escalating cancel) with the worker processes that  *)
(*              run run_conversion_process and write the shared registry.  *)
(*   SpecPoll   the same with a client polling get_job.                    *)
(*   SpecWork   the worker process next to the run_conversion thread of    *)
(*              worker/app/conversion.py, for ids with or without record.  *)
(*   SpecReg    worker/app/jobs.py: the registry and the callers of        *)
(*              get_job.                                                   *)
(*   SpecLight  workers/lightonocr/app/main.py: the in-memory job server.  *)
(*   SpecStream the same with the streams of stream_job.                   *)
(*   SpecThread worker/app/main.py: run_conversion against get_job.        *)
(*   SpecSubmit the convert handlers with the submissions they reject.     *)
(*   SpecProgress worker/app/progress.py: the progress bars of the         *)
(*              conversions, the per-job queues and their consumer.        *)
(*   SpecHook   converter/app/handler.py with the webhook progress bars.   *)
(*   SpecKill   the ProcessManager with workers the operating system kills.*)
(*   SpecLock   the ProcessManager with every operation that takes its     *)
(*              lock.                                                      *)
(*   SpecClear  clear_queue and _cleanup_job applied to any table.         *)
(*   SpecStreamFair  SpecStream under fair scheduling of the streams.      *)
(*   SpecModels worker/app/models.py: the callers of get_or_create_models. *)
(***************************************************************************)
EXTENDS Integers, FiniteSets, Sequences, TLC

(***************************************************************************)
(* Bounds of the model.                                                    *)
(***************************************************************************)
\* job ids handed to the ProcessManager
MaxJobs == 2
\* calls of start_job (each spawns one worker process)
MaxProcs == 2
\* calls of start_job in the specification with the polling client
MaxPollProcs == 1

\* job ids handed to the registry of worker/app/jobs.py
MaxRegJobs == 2
\* job ids handed to the ProcessManager in the specification of the two workers
MaxWorkJobs == 1
\* calls of update_job on the ProcessManager
MaxUpdates == 1
\* submissions the servers reject
MaxRejected == 2

JobIds == 1..MaxJobs
\* streams opened on the in-memory server
MaxStreams == 2
\* keepalive pings a stream sends while its job is running
MaxPings == 1
\* jobs of the in-memory server in the specification with streams
MaxStreamJobs == 1

Streams == 1..MaxStreams
RegIds == 1..MaxRegJobs
WorkIds == 1..MaxWorkJobs
Procs == 1..MaxProcs

\* progress bars a process creates
MaxBars == 1
\* the largest total of a progress bar
MaxTotal == 2
\* the largest n of an update(n) call
MaxStep == 2
\* update calls on one progress bar
MaxBarUpdates == 2
\* ticks of the clock during one handler call
MaxTicks == 2
MaxClears == 2        \* calls of clear_queue and _cleanup_job applied to a table
MaxCallers == 3       \* concurrent callers of get_or_create_models
MaxLoadFailures == 1  \* loader invocations that raise

Bars == 1..MaxBars
Callers == 1..MaxCallers

None == "none"

(***************************************************************************)
(* ProcessManager state (converter/app/process_manager.py).                *)
(***************************************************************************)
VARIABLES
    jobs,       \* self._jobs: job id -> record (Manager dict, shared)
    processes,  \* self._processes: job id -> process handle
    queues,     \* self._queues: the job ids that have a progress queue
    lock,       \* self._lock: "free", or the operation holding it
    proc,       \* the worker processes and the start_job calls creating them
    cancel,     \* the cancel_job call in progress, and what the last one returned
    polled,     \* the client polling get_job: the job it watches, the last status
    cancelled   \* the job ids cancel_job returned True for with no start_job since

pmVars == <<jobs, processes, queues, lock, proc, cancel, polled, cancelled>>

(***************************************************************************)
(* The in-memory job server (workers/lightonocr/app/main.py): one asyncio  *)
(* event loop; a step is the code between two suspension points.           *)
(***************************************************************************)
VARIABLES
    ljobs,      \* jobs: job id -> Job, with the position of its process_job task
    lresp,      \* what the last GET /jobs/{job_id} or POST /cancel/{job_id} answered
    lstreams    \* the streams opened by GET /jobs/{job_id}/stream

lightVars == <<ljobs, lresp, lstreams>>

(***************************************************************************)
(* The thread-based server (worker/app/main.py): run_conversion runs in a  *)
(* pool thread, the get_job handler in the event-loop thread.              *)
(***************************************************************************)
VARIABLES
    tjobs,      \* jobs: job id -> dict (a key that is absent holds None)
    tlock,      \* jobs_lock: "free", or the thread holding it
    twork,      \* the position of the run_conversion thread of each job
    tpoll       \* the get_job call in progress, and what the last one answered

threadVars == <<tjobs, tlock, twork, tpoll>>

(***************************************************************************)
(* The job registry of worker/app/jobs.py with the run_conversion threads  *)
(* of worker/app/conversion.py, and the callers of the registries.         *)
(***************************************************************************)
VARIABLES
    rjobs,      \* _jobs: job id -> the dict stored for it
    rrun,       \* the run_conversion call of each job: its position, its status writes
    rheld,      \* the value the last get_job returned to its caller
    called,     \* the last update_job call made on the ProcessManager
    submit      \* the last rejected submission (POST /convert) and its answer

regVars == <<rjobs, rrun, rheld, called, submit>>

(***************************************************************************)
(* Progress tracking (worker/app/progress.py): the tqdm patch the process  *)
(* installed, the bars the conversion creates, the per-job queues of the   *)
(* thread-based worker and the webhook callback of the serverless handler. *)
(***************************************************************************)
VARIABLES
    patch,      \* the tqdm patch installed in the process: "queue" or "webhook"
    pqueues,    \* _queues: job id -> the events its Queue holds
    active,     \* _active_job (0 for None)
    bars,       \* the progress bars created by the conversions
    clock,      \* time.time(), in ticks of 250 ms
    hook,       \* _webhook_callback is set
    hrun,       \* the handler call of converter/app/handler.py
    posts,      \* the callbacks made, with the time of each
    put,        \* job id -> every event ever put on the job's queues, in order
    got         \* job id -> the events the consumer has taken

progVars == <<patch, pqueues, active, bars, clock, hook, hrun, posts, put, got>>

\* the clear_queue and _cleanup_job calls applied to the tables as functions
\* (SpecClear), oldest first
VARIABLES
    cleared

clearVars == <<cleared>>

(***************************************************************************)
(* The model cache (worker/app/models.py, worker-tts/app/models.py): one   *)
(* cached object per process, loaded under a lock by the first caller.     *)
(***************************************************************************)
VARIABLES
    model_cache, \* _model_cache: 0 for None, otherwise the object the loader made
    model_lock,  \* _model_lock: 0 when free, otherwise the caller holding it
    callers,     \* the calls of get_or_create_models: position, object returned
    loads        \* how many times the loader has been invoked and how many failed

modVars == <<model_cache, model_lock, callers, loads>>

vars == <<jobs, processes, queues, lock, proc, cancel, polled, cancelled, ljobs, lresp,
          tjobs, tlock, twork, tpoll, rjobs, rrun, rheld, called, lstreams, submit,
          patch, pqueues, active, bars, clock, hook, hrun, posts, put, got,
          cleared, model_cache, model_lock, callers, loads>>

\* JobStatus
Statuses == {"pending", "processing", "html_ready", "completed", "failed", "cancelled"}
Terminal == {"completed", "failed", "cancelled"}

\* the position of a status in PENDING < PROCESSING < HTML_READY < terminal
Rank(s) ==
    CASE s = "pending" -> 0
      [] s = "processing" -> 1
      [] s = "html_ready" -> 2
      [] OTHER -> 3

\* the record create_job stores
NewJob(file_id, output_format) ==
    [status |-> "pending", file_id |-> file_id, output_format |-> output_format,
     html_content |-> None, result |-> None, error |-> None]

\* the keyword arguments of the worker's status writes, by the status written
Updated(cur, status) ==
    CASE status = "processing" -> [cur EXCEPT !.status = "processing"]
      [] status = "html_ready" ->
            [cur EXCEPT !.status = "html_ready", !.html_content = "html"]
      [] status = "completed" ->
            [cur EXCEPT !.status = "completed", !.result = "result"]
      [] status = "failed" ->
            [cur EXCEPT !.status = "failed", !.error = "error"]

\* a worker whose completed write is followed by an except clause
AfterWriteThenFailed(pc) ==
    CASE pc = "processing" -> "html_ready"
      [] pc = "html_ready" -> "completed"
      [] pc = "completed" -> "failed"
      [] OTHER -> "finally"

\* the statement after a status write in run_conversion_process
AfterWrite(pc) ==
    CASE pc = "processing" -> "html_ready"
      [] pc = "html_ready" -> "completed"
      [] OTHER -> "finally"

NoRec == [status |-> None]

\* had: the job had a record when the process was started; wrote: the statuses
\* the process has stored, kept while it lives
NoProc ==
    [call |-> "idle", job |-> 0, pc |-> "unborn", sent |-> FALSE, cur |-> NoRec,
     alive |-> FALSE, sig |-> None, had |-> FALSE, wrote |-> <<>>]

\* a cancel_job call: where it is, its job id and process handle; the status of
\* the job and its live workers when it was called; what it returned, and the
\* status of the job when it returned
NoCancel ==
    [pc |-> "idle", job |-> 0, proc |-> 0, was |-> None, live |-> {},
     ret |-> FALSE, status |-> None]

StatusOf(j) == IF j \in DOMAIN jobs THEN jobs[j].status ELSE None

IsAlive(p) == proc[p].alive

\* a process executes its code until a signal is pending for it
Running(p) == proc[p].alive /\ proc[p].sig = None

\* the worker processes of job j that a finished start_job call started and that
\* are alive
LiveWorkers(j) == {p \in Procs : proc[p].job = j /\ proc[p].call = "tracked" /\ proc[p].alive}

\* the other servers, not running
\* a stream that has not been opened; out lists the messages it has sent, late
\* tells that it was opened for a job already completed or failed
NoStream == [pc |-> "unopened", job |-> 0, late |-> FALSE, out |-> <<>>, pings |-> 0]

\* no request answered yet.  op is the handler that answered, job and was the
\* job of a cancel request and its status when the request arrived
NoAnswer ==
    [op |-> None, code |-> 0, status |-> None, progress |-> 0, html_content |-> None,
     result |-> None, error |-> None, cancelled |-> FALSE, job |-> 0, was |-> None]

InitLightIdle ==
    /\ ljobs = <<>>
    /\ lresp = NoAnswer
    /\ lstreams = [s \in Streams |-> NoStream]

InitThreadIdle ==
    /\ tjobs = <<>>
    /\ tlock = "free"
    /\ twork = <<>>
    /\ tpoll = [pc |-> "idle", job |-> 0, saw |-> None,
                resp |-> [code |-> 0, status |-> None, result |-> None, error |-> None]]

\* a run_conversion call that has not been made
NoRun == [pc |-> "idle", had |-> FALSE, wrote |-> <<>>]

\* no value held by a caller of get_job
NoHeld == [job |-> 0, kind |-> None, value |-> NoRec, modified |-> FALSE]

NoCall == [job |-> 0, status |-> None, seq |-> 0]

\* no submission rejected yet; seq counts the rejected submissions
NoSubmit == [server |-> None, code |-> 0, seq |-> 0]

InitRegIdle ==
    /\ rjobs = <<>>
    /\ rrun = [j \in RegIds |-> NoRun]
    /\ rheld = NoHeld
    /\ called = NoCall
    /\ submit = NoSubmit

\* time.time() when the process starts, and 0.5 s, in ticks: the epoch is far
\* more than 0.5 s in the past
Throttle == 2
Epoch == Throttle

\* a bar that has not been created; owner is the job whose conversion created
\* it (0: the handler), updates counts the update calls made on it
NoBar ==
    [pc |-> "none", owner |-> 0, stage |-> 0, n |-> 0, total |-> 0, tracked |-> FALSE,
     job_id |-> 0, started_at |-> 0, last_sent |-> 0, updates |-> 0]

\* a handler call that has not been made; conv is what the conversion of the
\* input does by itself, raised whether an exception has reached the handler's
\* try statement, lost whether a post of the call has failed, temp the
\* temporary file
NoHandler ==
    [pc |-> "idle", conv |-> None, raised |-> FALSE, lost |-> FALSE, result |-> None,
     temp |-> None]

InitClearIdle == cleared = <<>>

\* a caller that has not called yet
NoCaller == [pc |-> "idle", got |-> 0]

InitModIdle ==
    /\ model_cache = 0
    /\ model_lock = 0
    /\ callers = [c \in Callers |-> NoCaller]
    /\ loads = [ok |-> 0, failed |-> 0]

InitProgIdle ==
    /\ patch = "queue"
    /\ pqueues = <<>>
    /\ active = 0
    /\ bars = [b \in Bars |-> NoBar]
    /\ clock = Epoch
    /\ hook = FALSE
    /\ hrun = NoHandler
    /\ posts = <<>>
    /\ put = [j \in RegIds |-> <<>>]
    /\ got = [j \in RegIds |-> <<>>]

\* job ids are opaque tokens: the callers bring them into use in increasing order
InOrder(j) == \A k \in 1..(j-1) : k \in DOMAIN jobs

InitPM ==
    /\ jobs = <<>>
    /\ processes = <<>>
    /\ queues = {}
    /\ lock = "free"
    /\ proc = [p \in Procs |-> NoProc]
    /\ cancel = NoCancel
    /\ polled = [job |-> 0, status |-> None]
    /\ cancelled = {}
    /\ InitLightIdle
    /\ InitThreadIdle
    /\ InitRegIdle
    /\ InitProgIdle
    /\ InitClearIdle
    /\ InitModIdle

(***************************************************************************)
(* Registry operations.                                                    *)
(***************************************************************************)
\* create_job: job ids are fresh tokens, one create_job per id
CreateJob(j) ==
    /\ lock = "free"
    /\ j \notin DOMAIN jobs
    /\ InOrder(j)
    /\ jobs' = [k \in DOMAIN jobs \cup {j} |->
                  IF k = j THEN NewJob("file", "html") ELSE jobs[k]]
    /\ UNCHANGED <<processes, queues, lock, proc, cancel, polled, cancelled, lightVars, threadVars, regVars, progVars,
                   clearVars, modVars>>

\* get_job by the polling client, which keeps to the first job it polled
GetJob(j) ==
    /\ lock = "free"
    /\ j \in DOMAIN jobs
    /\ polled.job \in {0, j}
    /\ polled' = [job |-> j, status |-> jobs[j].status]
    /\ UNCHANGED <<jobs, processes, queues, lock, proc, cancel, cancelled, lightVars, threadVars, regVars, progVars,
                   clearVars, modVars>>

(***************************************************************************)
(* start_job: get_queue, process.start(), then the handle is recorded.     *)
(***************************************************************************)
\* the process slot the next start_job call uses
NextSlot == CHOOSE p \in Procs : proc[p].call = "idle" /\ \A q \in 1..(p-1) : proc[q].call # "idle"

\* lines 69-84: get_queue(job_id), then the process is created and started;
\* the callers create the record of a job before they start it
StartJobSpawn(j) ==
    /\ lock = "free"
    /\ \E p \in Procs : proc[p].call = "idle"
    /\ j \in DOMAIN jobs
    /\ queues' = queues \cup {j}
    /\ proc' = [proc EXCEPT ![NextSlot] =
                  [@ EXCEPT !.call = "spawned", !.job = j, !.alive = TRUE,
                            !.pc = "processing", !.had = TRUE]]
    /\ cancelled' = cancelled \ {j}
    /\ UNCHANGED <<jobs, processes, lock, cancel, polled, lightVars, threadVars, regVars, progVars,
                   clearVars, modVars>>

\* lines 86-87: the handle is recorded, replacing any handle recorded for the id
StartJobTrack(p) ==
    /\ lock = "free"
    /\ proc[p].call = "spawned"
    /\ processes' = [k \in DOMAIN processes \cup {proc[p].job} |->
                       IF k = proc[p].job THEN p ELSE processes[k]]
    /\ proc' = [proc EXCEPT ![p].call = "tracked"]
    /\ cancelled' = cancelled \ {proc[p].job}
    /\ UNCHANGED <<jobs, queues, lock, cancel, polled, lightVars, threadVars, regVars, progVars,
                   clearVars, modVars>>

(***************************************************************************)
(* The worker process: run_conversion_process and _update_shared_job.      *)
(* A status write is a read of the record, then a whole-record store sent  *)
(* to the manager process, which applies it; neither takes self._lock.     *)
(***************************************************************************)
WriteStages == {"processing", "html_ready", "completed", "failed"}

\* _update_shared_job up to the store request: the membership test and the copy
WorkerRead(p) ==
    /\ Running(p)
    /\ proc[p].pc \in WriteStages
    /\ ~ proc[p].sent
    /\ IF proc[p].job \in DOMAIN jobs
         THEN proc' = [proc EXCEPT ![p] = [@ EXCEPT !.cur = jobs[proc[p].job], !.sent = TRUE]]
         ELSE proc' = [proc EXCEPT ![p].pc = AfterWrite(proc[p].pc)]
    /\ UNCHANGED <<jobs, processes, queues, lock, cancel, polled, cancelled, lightVars, threadVars, regVars, progVars,
                   clearVars, modVars>>

\* the manager applies the store; a worker that is still running goes on
ManagerApply(p) ==
    /\ proc[p].sent
    /\ jobs' = [jobs EXCEPT ![proc[p].job] = Updated(proc[p].cur, proc[p].pc)]
    /\ proc' = [proc EXCEPT ![p] =
                  [@ EXCEPT !.sent = FALSE, !.cur = NoRec,
                            !.wrote = IF proc[p].alive THEN Append(@, proc[p].pc) ELSE <<>>,
                            !.pc = IF Running(p) THEN AfterWrite(@)
                                   ELSE IF proc[p].alive THEN @ ELSE "killed"]]
    /\ UNCHANGED <<processes, queues, lock, cancel, polled, cancelled, lightVars, threadVars, regVars, progVars,
                   clearVars, modVars>>

\* an exception in the conversion: the except clauses write failed
WorkerRaise(p) ==
    /\ Running(p)
    /\ proc[p].pc \in {"html_ready", "completed"}
    /\ ~ proc[p].sent
    /\ proc' = [proc EXCEPT ![p].pc = "failed"]
    /\ UNCHANGED <<jobs, processes, queues, lock, cancel, polled, cancelled, lightVars, threadVars, regVars, progVars,
                   clearVars, modVars>>

\* the finally clause, and the process exits
WorkerExit(p) ==
    /\ Running(p)
    /\ proc[p].pc = "finally"
    /\ proc' = [proc EXCEPT ![p] = [@ EXCEPT !.alive = FALSE, !.pc = "exited",
                                              !.had = FALSE, !.wrote = <<>>]]
    /\ UNCHANGED <<jobs, processes, queues, lock, cancel, polled, cancelled, lightVars, threadVars, regVars, progVars,
                   clearVars, modVars>>

\* a signalled process dies (SIGTERM and SIGKILL are not handled by the worker)
Die(p) ==
    /\ proc[p].alive
    /\ proc[p].sig # None
    /\ proc' = [proc EXCEPT ![p] =
                  [@ EXCEPT !.alive = FALSE, !.sig = None, !.had = FALSE, !.wrote = <<>>,
                            !.pc = IF proc[p].sent THEN @ ELSE "killed"]]
    /\ UNCHANGED <<jobs, processes, queues, lock, cancel, polled, cancelled, lightVars, threadVars, regVars, progVars,
                   clearVars, modVars>>

(***************************************************************************)
(* cancel_job, which holds self._lock from its first line to its return.   *)
(***************************************************************************)
\* _cleanup_job: the handle and the queue of job j are dropped
CleanupProcesses(j) == [k \in DOMAIN processes \ {j} |-> processes[k]]
CleanupQueues(j) == queues \ {j}

\* a cancel_job that goes on for every handle it finds, alive or not
ReturnsFalseWithoutHandle(j) == j \notin DOMAIN processes

\* lines 92-98: no handle, or a handle of a process that has exited
ReturnsFalse(j) == IF j \in DOMAIN processes THEN ~ IsAlive(processes[j]) ELSE TRUE

CancelFalse(j) ==
    /\ lock = "free"
    /\ cancel.pc = "idle"
    /\ ReturnsFalse(j)
    /\ cancel' = [NoCancel EXCEPT !.pc = "returned", !.job = j, !.was = StatusOf(j),
                                  !.live = LiveWorkers(j), !.ret = FALSE,
                                  !.status = StatusOf(j)]
    /\ UNCHANGED <<jobs, processes, queues, lock, proc, polled, cancelled, lightVars, threadVars, regVars, progVars,
                   clearVars, modVars>>

\* lines 100-104: terminate() and the start of join(timeout=2.0)
CancelTerminate(j) ==
    /\ lock = "free"
    /\ cancel.pc = "idle"
    /\ ~ ReturnsFalse(j)
    /\ lock' = "cancel_job"
    /\ proc' = [proc EXCEPT ![processes[j]].sig = IF @ = None THEN "term" ELSE @]
    /\ cancel' = [NoCancel EXCEPT !.pc = "join1", !.job = j, !.proc = processes[j],
                                  !.was = StatusOf(j), !.live = LiveWorkers(j)]
    /\ UNCHANGED <<jobs, processes, queues, polled, cancelled, lightVars, threadVars, regVars, progVars,
                   clearVars, modVars>>

\* a cancel_job that calls kill() after the first join whether the process is
\* alive or not
CancelJoin1KillsUnchecked ==
    /\ cancel.pc = "join1"
    /\ proc' = [proc EXCEPT ![cancel.proc].sig = "kill"]
    /\ cancel' = [cancel EXCEPT !.pc = "join2"]
    /\ UNCHANGED <<jobs, processes, queues, lock, polled, cancelled, lightVars, threadVars, regVars, progVars,
                   clearVars, modVars>>

\* lines 104-109: join returns (exit or timeout); kill() if still alive
CancelJoin1 ==
    /\ cancel.pc = "join1"
    /\ IF IsAlive(cancel.proc)
         THEN /\ proc' = [proc EXCEPT ![cancel.proc].sig = "kill"]
              /\ cancel' = [cancel EXCEPT !.pc = "join2"]
         ELSE /\ proc' = proc
              /\ cancel' = [cancel EXCEPT !.pc = "update"]
    /\ UNCHANGED <<jobs, processes, queues, lock, polled, cancelled, lightVars, threadVars, regVars, progVars,
                   clearVars, modVars>>

\* line 109: join(timeout=1.0) returns (exit or timeout)
CancelJoin2 ==
    /\ cancel.pc = "join2"
    /\ cancel' = [cancel EXCEPT !.pc = "update"]
    /\ UNCHANGED <<jobs, processes, queues, lock, proc, polled, cancelled, lightVars, threadVars, regVars, progVars,
                   clearVars, modVars>>

\* lines 111-119: the status write, _cleanup_job, return True
CancelWrite ==
    /\ cancel.pc = "update"
    /\ jobs' = IF cancel.job \in DOMAIN jobs
                THEN [jobs EXCEPT ![cancel.job] = [@ EXCEPT !.status = "cancelled"]]
                ELSE jobs
    /\ processes' = CleanupProcesses(cancel.job)
    /\ queues' = CleanupQueues(cancel.job)
    /\ cancel' = [cancel EXCEPT !.pc = "returned", !.ret = TRUE,
                                !.status = IF cancel.job \in DOMAIN jobs
                                             THEN "cancelled" ELSE None]
    /\ lock' = "free"
    /\ cancelled' = cancelled \cup {cancel.job}
    /\ UNCHANGED <<proc, polled, lightVars, threadVars, regVars, progVars, clearVars, modVars>>

\* the caller has the returned value and may call again
CancelReturned ==
    /\ cancel.pc = "returned"
    /\ cancel' = NoCancel
    /\ UNCHANGED <<jobs, processes, queues, lock, proc, polled, cancelled, lightVars, threadVars, regVars, progVars,
                   clearVars, modVars>>

\* a cleanup_finished that does not ask whether the process has exited
FinishedOrAlive(j) == j \in DOMAIN processes

\* line 136: a handle is recorded for the id and its process has exited
Finished(j) == IF j \in DOMAIN processes THEN ~ IsAlive(processes[j]) ELSE FALSE

\* cleanup_finished; it changes nothing unless Finished(j)
CleanupFinished(j) ==
    /\ lock = "free"
    /\ Finished(j)
    /\ processes' = CleanupProcesses(j)
    /\ queues' = CleanupQueues(j)
    /\ UNCHANGED <<jobs, lock, proc, cancel, polled, cancelled, lightVars, threadVars, regVars, progVars,
                   clearVars, modVars>>

Init == InitPM

Next ==
    \/ \E j \in JobIds : CreateJob(j)
    \/ \E j \in JobIds : StartJobSpawn(j)
    \/ \E p \in Procs : StartJobTrack(p)
    \/ \E p \in Procs : WorkerRead(p)
    \/ \E p \in Procs : ManagerApply(p)
    \/ \E p \in Procs : WorkerRaise(p)
    \/ \E p \in Procs : WorkerExit(p)
    \/ \E p \in Procs : Die(p)
    \/ \E j \in JobIds : CancelFalse(j)
    \/ \E j \in JobIds : CancelTerminate(j)
    \/ CancelJoin1
    \/ CancelJoin2
    \/ CancelWrite
    \/ CancelReturned
    \/ \E j \in JobIds : CleanupFinished(j)

Spec == Init /\ [][Next]_vars

\* the ProcessManager with a client polling get_job, and MaxPollProcs calls of
\* start_job
InitPoll ==
    /\ jobs = <<>>
    /\ processes = <<>>
    /\ queues = {}
    /\ lock = "free"
    /\ proc = [p \in Procs |->
                 IF p <= MaxPollProcs THEN NoProc ELSE [NoProc EXCEPT !.call = "never"]]
    /\ cancel = NoCancel
    /\ polled = [job |-> 0, status |-> None]
    /\ cancelled = {}
    /\ InitLightIdle
    /\ InitThreadIdle
    /\ InitRegIdle
    /\ InitProgIdle
    /\ InitClearIdle
    /\ InitModIdle

NextPoll == Next \/ \E j \in JobIds : GetJob(j)

SpecPoll == InitPoll /\ [][NextPoll]_vars

(***************************************************************************)
(* workers/lightonocr/app/main.py.  The server is one event loop: the code *)
(* between two suspension points (the download, a page or an image in the  *)
(* thread pool) runs without interleaving; emit_event on the unbounded     *)
(* queue does not suspend.                                                 *)
(***************************************************************************)
\* jobs of the in-memory server
MaxLightJobs == 2
\* pages of a PDF (after parse_page_range)
MaxPages == 2

LightIds == 1..MaxLightJobs

\* Job(job_id, file_url, mime_type, page_range) with the dataclass defaults;
\* kind is the suffix get_suffix gives: "pdf", "image" or "other".  file is the
\* temporary file of process_job ("none" before it is created, "present",
\* "removed"), temp_path whether process_job has assigned its temp_path
NewLightJob(kind) ==
    [status |-> "pending", result |-> None, error |-> None, progress |-> 0,
     html_content |-> None, events |-> <<>>, queue |-> <<>>, kind |-> kind, pages |-> 0,
     pc |-> "created",
     file |-> None, temp_path |-> FALSE]

\* the finally clause of process_job, lines 120-122
Finally(job) ==
    IF job.temp_path THEN [job EXCEPT !.file = "removed"] ELSE job

\* emit_event
Event(event, stage, current, total) ==
    [event |-> event, stage |-> stage, current |-> current, total |-> total]
\* events lists what the job has emitted, queue what job.events holds
Emit(job, event) == [job EXCEPT !.events = Append(@, event), !.queue = Append(@, event)]

\* the except clauses of process_job: error, status FAILED, a failed event
Failed(job, error) ==
    Finally(Emit([job EXCEPT !.error = error, !.status = "failed", !.pc = "done"],
                 Event("failed", None, 0, 0)))

\* the end of a PDF with html_ready emitted again after completed
FinishPdfReadyAgain(job) ==
    LET ready == Emit([job EXCEPT !.html_content = "html", !.status = "html_ready"],
                      Event("html_ready", None, 0, 0))
        done == Emit([ready EXCEPT !.result = "result", !.status = "completed",
                                   !.pc = "done"],
                     Event("completed", None, 0, 0))
    IN  Finally(Emit(done, Event("html_ready", None, 0, 0)))

\* lines 156-179: html_ready, then the result and completed, with no suspension
\* between them
FinishPdf(job) ==
    LET ready == Emit([job EXCEPT !.html_content = "html", !.status = "html_ready"],
                      Event("html_ready", None, 0, 0))
    IN  Finally(Emit([ready EXCEPT !.result = "result", !.status = "completed",
                                   !.pc = "done"],
                     Event("completed", None, 0, 0)))

\* lines 138-145: the progress of page idx of the job's pages
StartPage(job, idx) ==
    Emit([job EXCEPT !.progress = idx, !.pc = "page"], Event("progress", "OCR inference", idx, job.pages))

\* convert: the job is stored and its task created
LConvert(j, kind) ==
    /\ j \notin DOMAIN ljobs
    /\ \A k \in 1..(j-1) : k \in DOMAIN ljobs
    /\ ljobs' = [k \in DOMAIN ljobs \cup {j} |-> IF k = j THEN NewLightJob(kind) ELSE ljobs[k]]
    /\ UNCHANGED <<lresp, lstreams, pmVars, threadVars, regVars, progVars, clearVars, modVars>>

\* process_job, lines 72-84: up to the download
LProcessStart(j) ==
    /\ j \in DOMAIN ljobs
    /\ ljobs[j].pc = "created"
    /\ ljobs' = [ljobs EXCEPT ![j] =
                   Emit(Emit([@ EXCEPT !.status = "processing", !.pc = "download",
                                       !.file = "present"],
                             Event("progress", "Starting", 0, 1)),
                        Event("progress", "Downloading file", 0, 1))]
    /\ UNCHANGED <<lresp, lstreams, pmVars, threadVars, regVars, progVars, clearVars, modVars>>

\* lines 106-109: the download raised httpx.HTTPError
LDownloadFailed(j) ==
    /\ j \in DOMAIN ljobs
    /\ ljobs[j].pc = "download"
    /\ ljobs' = [ljobs EXCEPT ![j] = Failed(@, "download")]
    /\ UNCHANGED <<lresp, lstreams, pmVars, threadVars, regVars, progVars, clearVars, modVars>>

\* lines 86-104 and 125-149: the file is there; a PDF of n pages starts its first
\* page, an image its conversion, another suffix raises ValueError
LDownloaded(j, n) ==
    /\ j \in DOMAIN ljobs
    /\ ljobs[j].pc = "download"
    /\ ljobs' = [ljobs EXCEPT ![j] =
                   CASE @.kind = "pdf" ->
                          IF n = 0 THEN FinishPdf([@ EXCEPT !.pages = 0, !.temp_path = TRUE])
                          ELSE StartPage([@ EXCEPT !.pages = n, !.temp_path = TRUE], 1)
                     [] @.kind = "image" -> [@ EXCEPT !.pc = "image", !.temp_path = TRUE]
                     [] OTHER -> Failed([@ EXCEPT !.temp_path = TRUE], "unsupported")]
    /\ UNCHANGED <<lresp, lstreams, pmVars, threadVars, regVars, progVars, clearVars, modVars>>

\* lines 148-179: a page came back from the pool: the next page, or the end
LPageDone(j) ==
    /\ j \in DOMAIN ljobs
    /\ ljobs[j].pc = "page"
    /\ ljobs' = [ljobs EXCEPT ![j] =
                   IF @.progress < @.pages THEN StartPage(@, @.progress + 1)
                   ELSE FinishPdf(@)]
    /\ UNCHANGED <<lresp, lstreams, pmVars, threadVars, regVars, progVars, clearVars, modVars>>

\* lines 96-102: the image came back from the pool
LImageDone(j) ==
    /\ j \in DOMAIN ljobs
    /\ ljobs[j].pc = "image"
    /\ ljobs' = [ljobs EXCEPT ![j] =
                   Finally(Emit([@ EXCEPT !.result = "result", !.html_content = "html",
                                          !.status = "completed", !.pc = "done"],
                                Event("completed", None, 0, 0)))]
    /\ UNCHANGED <<lresp, lstreams, pmVars, threadVars, regVars, progVars, clearVars, modVars>>

\* lines 110-119: the conversion of a page or of the image raised
LConversionFailed(j) ==
    /\ j \in DOMAIN ljobs
    /\ ljobs[j].pc \in {"page", "image"}
    /\ ljobs' = [ljobs EXCEPT ![j] = Failed(@, "conversion")]
    /\ UNCHANGED <<lresp, lstreams, pmVars, threadVars, regVars, progVars, clearVars, modVars>>

\* a client knows a job id from the answer of convert; the task's first step
\* runs before the loop reads the client's next request
Started(j) == j \in DOMAIN ljobs /\ ljobs[j].pc # "created"

\* cancel_job of the in-memory server
CancelledJob(job) ==
    IF job.status \in {"pending", "processing"}
      THEN [job EXCEPT !.status = "failed", !.error = "Cancelled by user"]
      ELSE job

\* line 327: the answer is the same for every job that exists
CancelResponse(j, job) ==
    [NoAnswer EXCEPT !.op = "cancel_job", !.code = 200, !.cancelled = TRUE,
                     !.job = j, !.was = job.status]

LCancel(j) ==
    /\ Started(j)
    /\ ljobs' = [ljobs EXCEPT ![j] = CancelledJob(@)]
    /\ lresp' = CancelResponse(j, ljobs[j])
    /\ UNCHANGED <<lstreams, pmVars, threadVars, regVars, progVars, clearVars, modVars>>

\* get_job_status: the response, or 404 for an unknown id
StatusResponse(job) ==
    [NoAnswer EXCEPT !.op = "get_job_status", !.code = 200, !.status = job.status,
                     !.progress = job.progress,
                     !.html_content = job.html_content,
                     !.result = IF job.status = "completed" THEN job.result ELSE None,
                     !.error = job.error]

NotFound == [NoAnswer EXCEPT !.op = "get_job_status", !.code = 404]

LGetJobStatus(j) ==
    /\ j \in DOMAIN ljobs => Started(j)
    /\ lresp' = IF j \in DOMAIN ljobs THEN StatusResponse(ljobs[j]) ELSE NotFound
    /\ UNCHANGED <<ljobs, lstreams, pmVars, threadVars, regVars, progVars, clearVars, modVars>>

InitLight ==
    /\ InitLightIdle
    /\ InitThreadIdle
    /\ InitRegIdle
    /\ InitProgIdle
    /\ InitClearIdle
    /\ InitModIdle
    /\ jobs = <<>>
    /\ processes = <<>>
    /\ queues = {}
    /\ lock = "free"
    /\ proc = [p \in Procs |-> NoProc]
    /\ cancel = NoCancel
    /\ polled = [job |-> 0, status |-> None]
    /\ cancelled = {}

NextLight ==
    \/ \E j \in LightIds, kind \in {"pdf", "image", "other"} : LConvert(j, kind)
    \/ \E j \in LightIds : LProcessStart(j)
    \/ \E j \in LightIds : LDownloadFailed(j)
    \/ \E j \in LightIds, n \in 0..MaxPages : LDownloaded(j, n)
    \/ \E j \in LightIds : LPageDone(j)
    \/ \E j \in LightIds : LImageDone(j)
    \/ \E j \in LightIds : LConversionFailed(j)
    \/ \E j \in LightIds : LCancel(j)
    \/ \E j \in LightIds : LGetJobStatus(j)

SpecLight == InitLight /\ [][NextLight]_vars

(***************************************************************************)
(* stream_job: every stream of a job takes its messages from job.events.   *)
(***************************************************************************)
StreamIds == 1..MaxStreamJobs

Ping == Event("ping", None, 0, 0)

\* stream_job, lines 290-313: the generator is created for a known job
SOpen(s, j) ==
    /\ lstreams[s].pc = "unopened"
    /\ \A t \in 1..(s-1) : lstreams[t].pc # "unopened"
    /\ Started(j)
    /\ lstreams' = [lstreams EXCEPT ![s] =
                      [@ EXCEPT !.pc = "open", !.job = j,
                                !.late = ljobs[j].status \in {"completed", "failed"}]]
    /\ UNCHANGED <<ljobs, lresp, pmVars, threadVars, regVars, progVars, clearVars, modVars>>

\* lines 299-304: an event is taken from the queue and sent; the generator
\* stops after completed or failed
SEvent(s) ==
    /\ lstreams[s].pc = "open"
    /\ ljobs[lstreams[s].job].queue # <<>>
    /\ LET e == Head(ljobs[lstreams[s].job].queue)
       IN  /\ ljobs' = [ljobs EXCEPT ![lstreams[s].job].queue = Tail(@)]
           /\ lstreams' = [lstreams EXCEPT ![s] =
                             [@ EXCEPT !.out = Append(@, e),
                                       !.pc = IF e.event \in {"completed", "failed"}
                                                THEN "closed" ELSE "open"]]
    /\ UNCHANGED <<lresp, pmVars, threadVars, regVars, progVars, clearVars, modVars>>

\* a generator that does not look at the status of the job after a ping
JobOverUnseen(job) == FALSE

\* line 310: `job.status in (JobStatus.COMPLETED, JobStatus.FAILED)`
JobOver(job) == job.status \in {"completed", "failed"}

\* lines 305-311: no event for 30 seconds: a ping is sent, and the generator
\* stops if the job is completed or failed
STimeout(s) ==
    /\ lstreams[s].pc = "open"
    /\ ljobs[lstreams[s].job].queue = <<>>
    /\ IF JobOver(ljobs[lstreams[s].job])
         THEN lstreams' = [lstreams EXCEPT ![s] =
                             [@ EXCEPT !.out = Append(@, Ping), !.pc = "closed"]]
         ELSE /\ lstreams[s].pings < MaxPings
              /\ lstreams' = [lstreams EXCEPT ![s] =
                                [@ EXCEPT !.out = Append(@, Ping), !.pings = @ + 1]]
    /\ UNCHANGED <<ljobs, lresp, pmVars, threadVars, regVars, progVars, clearVars, modVars>>

InitStream == InitLight

NextStream ==
    \/ \E j \in StreamIds, kind \in {"pdf", "image", "other"} : LConvert(j, kind)
    \/ \E j \in StreamIds : LProcessStart(j)
    \/ \E j \in StreamIds : LDownloadFailed(j)
    \/ \E j \in StreamIds, n \in 0..MaxPages : LDownloaded(j, n)
    \/ \E j \in StreamIds : LPageDone(j)
    \/ \E j \in StreamIds : LImageDone(j)
    \/ \E j \in StreamIds : LConversionFailed(j)
    \/ \E j \in StreamIds : LCancel(j)
    \/ \E s \in Streams, j \in StreamIds : SOpen(s, j)
    \/ \E s \in Streams : SEvent(s)
    \/ \E s \in Streams : STimeout(s)

SpecStream == InitStream /\ [][NextStream]_vars

(***************************************************************************)
(* worker/app/main.py.  run_conversion runs in a pool thread and writes    *)
(* the job's dict under jobs_lock, one key at a time; get_job takes the    *)
(* dict under jobs_lock and reads its keys after releasing it.             *)
(***************************************************************************)
\* jobs of the thread-based server
MaxThreadJobs == 2

ThreadIds == 1..MaxThreadJobs

\* the dict convert stores; result and error are keys it does not hold yet
NewThreadJob(file_id, output_format) ==
    [status |-> "pending", file_id |-> file_id, output_format |-> output_format,
     result |-> None, error |-> None]

NoResponse == [code |-> 0, status |-> None, result |-> None, error |-> None]

\* a get_job call: where it is, the job id, the status its tests saw last, and
\* the answer of the last call
NoPoll == [pc |-> "idle", job |-> 0, saw |-> None, resp |-> NoResponse]

\* convert: the record is stored under jobs_lock, run_conversion is queued
TConvert(j) ==
    /\ tlock = "free"
    /\ j \notin DOMAIN tjobs
    /\ \A k \in 1..(j-1) : k \in DOMAIN tjobs
    /\ tjobs' = [k \in DOMAIN tjobs \cup {j} |->
                   IF k = j THEN NewThreadJob("file", "html") ELSE tjobs[k]]
    /\ twork' = [k \in DOMAIN twork \cup {j} |-> IF k = j THEN "queued" ELSE twork[k]]
    /\ UNCHANGED <<tlock, tpoll, pmVars, lightVars, regVars, progVars, clearVars, modVars>>

\* run_conversion, lines 165-166
TProcessing(j) ==
    /\ tlock = "free"
    /\ j \in DOMAIN twork
    /\ twork[j] = "queued"
    /\ tjobs' = [tjobs EXCEPT ![j].status = "processing"]
    /\ twork' = [twork EXCEPT ![j] = "converting"]
    /\ UNCHANGED <<tlock, tpoll, pmVars, lightVars, regVars, progVars, clearVars, modVars>>

\* lines 200-201: jobs_lock is taken and status written
TCompletedStatus(j) ==
    /\ tlock = "free"
    /\ j \in DOMAIN twork
    /\ twork[j] = "converting"
    /\ tlock' = "run_conversion"
    /\ tjobs' = [tjobs EXCEPT ![j].status = "completed"]
    /\ twork' = [twork EXCEPT ![j] = "result"]
    /\ UNCHANGED <<tpoll, pmVars, lightVars, regVars, progVars, clearVars, modVars>>

\* lines 202-205: result is written and jobs_lock released
TCompletedResult(j) ==
    /\ j \in DOMAIN twork
    /\ twork[j] = "result"
    /\ tlock' = "free"
    /\ tjobs' = [tjobs EXCEPT ![j].result = "result"]
    /\ twork' = [twork EXCEPT ![j] = "finally"]
    /\ UNCHANGED <<tpoll, pmVars, lightVars, regVars, progVars, clearVars, modVars>>

\* lines 206-208: the conversion raised; jobs_lock is taken and status written
TFailedStatus(j) ==
    /\ tlock = "free"
    /\ j \in DOMAIN twork
    /\ twork[j] = "converting"
    /\ tlock' = "run_conversion"
    /\ tjobs' = [tjobs EXCEPT ![j].status = "failed"]
    /\ twork' = [twork EXCEPT ![j] = "error"]
    /\ UNCHANGED <<tpoll, pmVars, lightVars, regVars, progVars, clearVars, modVars>>

\* line 209: error is written and jobs_lock released
TFailedError(j) ==
    /\ j \in DOMAIN twork
    /\ twork[j] = "error"
    /\ tlock' = "free"
    /\ tjobs' = [tjobs EXCEPT ![j].error = "error"]
    /\ twork' = [twork EXCEPT ![j] = "finally"]
    /\ UNCHANGED <<tpoll, pmVars, lightVars, regVars, progVars, clearVars, modVars>>

\* lines 210-212: the finally clause
TFinally(j) ==
    /\ j \in DOMAIN twork
    /\ twork[j] = "finally"
    /\ twork' = [twork EXCEPT ![j] = "done"]
    /\ UNCHANGED <<tjobs, tlock, tpoll, pmVars, lightVars, regVars, progVars,
                   clearVars, modVars>>

\* get_job, lines 311-315: the dict is looked up under jobs_lock; 404 if absent
TGetJob(j) ==
    /\ tlock = "free"
    /\ tpoll.pc = "idle"
    /\ tpoll' = IF j \in DOMAIN tjobs
                  THEN [NoPoll EXCEPT !.pc = "status", !.job = j]
                  ELSE [NoPoll EXCEPT !.job = j, !.resp = [NoResponse EXCEPT !.code = 404]]
    /\ UNCHANGED <<tjobs, tlock, twork, pmVars, lightVars, regVars, progVars,
                   clearVars, modVars>>

\* lines 317-320: job["status"] is read into the response
TReadStatus ==
    /\ tpoll.pc = "status"
    /\ tpoll' = [tpoll EXCEPT !.pc = "is_completed",
                              !.resp = [NoResponse EXCEPT !.code = 200,
                                                          !.status = tjobs[tpoll.job].status]]
    /\ UNCHANGED <<tjobs, tlock, twork, pmVars, lightVars, regVars, progVars,
                   clearVars, modVars>>

\* line 322: job["status"] == "completed"
TIsCompleted ==
    /\ tpoll.pc = "is_completed"
    /\ tpoll' = [tpoll EXCEPT !.saw = tjobs[tpoll.job].status,
                              !.pc = IF tjobs[tpoll.job].status = "completed"
                                       THEN "result" ELSE "is_failed"]
    /\ UNCHANGED <<tjobs, tlock, twork, pmVars, lightVars, regVars, progVars,
                   clearVars, modVars>>

\* line 323: job["result"]; the key that is not there raises KeyError, which
\* the framework answers with 500
ReadResult(job, resp) ==
    IF job.result = None
      THEN [resp EXCEPT !.code = 500]
      ELSE [resp EXCEPT !.result = job.result]

TReadResult ==
    /\ tpoll.pc = "result"
    /\ tpoll' = [tpoll EXCEPT !.pc = "idle", !.resp = ReadResult(tjobs[tpoll.job], @)]
    /\ UNCHANGED <<tjobs, tlock, twork, pmVars, lightVars, regVars, progVars,
                   clearVars, modVars>>

\* line 324: job["status"] == "failed"
TIsFailed ==
    /\ tpoll.pc = "is_failed"
    /\ tpoll' = [tpoll EXCEPT !.saw = tjobs[tpoll.job].status,
                              !.pc = IF tjobs[tpoll.job].status = "failed"
                                       THEN "error" ELSE "idle"]
    /\ UNCHANGED <<tjobs, tlock, twork, pmVars, lightVars, regVars, progVars,
                   clearVars, modVars>>

\* line 325: job.get("error", "Unknown error")
ReadError(job, resp) ==
    [resp EXCEPT !.error = IF job.error = None THEN "Unknown error" ELSE job.error]

TReadError ==
    /\ tpoll.pc = "error"
    /\ tpoll' = [tpoll EXCEPT !.pc = "idle", !.resp = ReadError(tjobs[tpoll.job], @)]
    /\ UNCHANGED <<tjobs, tlock, twork, pmVars, lightVars, regVars, progVars,
                   clearVars, modVars>>

InitThread ==
    /\ tjobs = <<>>
    /\ tlock = "free"
    /\ twork = <<>>
    /\ tpoll = NoPoll
    /\ InitLightIdle
    /\ InitRegIdle
    /\ InitProgIdle
    /\ InitClearIdle
    /\ InitModIdle
    /\ jobs = <<>>
    /\ processes = <<>>
    /\ queues = {}
    /\ lock = "free"
    /\ proc = [p \in Procs |-> NoProc]
    /\ cancel = NoCancel
    /\ polled = [job |-> 0, status |-> None]
    /\ cancelled = {}

NextThread ==
    \/ \E j \in ThreadIds : TConvert(j)
    \/ \E j \in ThreadIds : TProcessing(j)
    \/ \E j \in ThreadIds : TCompletedStatus(j)
    \/ \E j \in ThreadIds : TCompletedResult(j)
    \/ \E j \in ThreadIds : TFailedStatus(j)
    \/ \E j \in ThreadIds : TFailedError(j)
    \/ \E j \in ThreadIds : TFinally(j)
    \/ \E j \in ThreadIds : TGetJob(j)
    \/ TReadStatus
    \/ TIsCompleted
    \/ TReadResult
    \/ TIsFailed
    \/ TReadError

SpecThread == InitThread /\ [][NextThread]_vars

(***************************************************************************)
(* worker/app/jobs.py and run_conversion of worker/app/conversion.py.      *)
(* Every registry operation holds _jobs_lock from its first line to its    *)
(* return and is one step.                                                 *)
(***************************************************************************)
\* update_job without its membership test: the fields are stored for any id
UpdateJobInAnyId(reg, j, status) ==
    [k \in DOMAIN reg \cup {j} |->
       IF k = j
         THEN Updated(IF j \in DOMAIN reg THEN reg[j] ELSE NewJob(None, None), status)
         ELSE reg[k]]

\* update_job: the fields are merged into the record of an id that has one
UpdateJobIn(reg, j, status) ==
    IF j \in DOMAIN reg
      THEN [reg EXCEPT ![j] = Updated(@, status)]
      ELSE reg

\* a clear that empties the whole table
ClearQueueAll(qs, j) == <<>>

\* clear_queue of worker/app/progress.py
ClearQueue(qs, j) == [k \in DOMAIN qs \ {j} |-> qs[k]]

\* create_job of worker/app/jobs.py
RCreateJob(j) ==
    /\ j \notin DOMAIN rjobs
    /\ rjobs' = [k \in DOMAIN rjobs \cup {j} |->
                   IF k = j THEN NewJob("file", "html") ELSE rjobs[k]]
    /\ UNCHANGED <<rrun, rheld, called, submit, pmVars, lightVars, threadVars, progVars,
                   clearVars, modVars>>

\* run_conversion is called for the id: set_active_job, line 170
RRun(j) ==
    /\ rrun[j].pc = "idle"
    /\ rrun' = [rrun EXCEPT ![j] = [@ EXCEPT !.pc = "processing", !.had = j \in DOMAIN rjobs]]
    /\ active' = j
    /\ UNCHANGED <<rjobs, rheld, called, submit, pmVars, lightVars, threadVars,
                   patch, pqueues, bars, clock, hook, hrun, posts, put, got,
                   clearVars, modVars>>

\* the update_job calls of run_conversion (lines 173, 181, 199-212, 213-219);
\* wrote lists the statuses the call stored
RWrite(j) ==
    /\ rrun[j].pc \in WriteStages
    /\ rjobs' = UpdateJobIn(rjobs, j, rrun[j].pc)
    /\ rrun' = [rrun EXCEPT ![j] =
                  [pc |-> AfterWrite(@.pc), had |-> @.had,
                   wrote |-> IF j \in DOMAIN rjobs
                               THEN Append(@.wrote, @.pc) ELSE @.wrote]]
    /\ UNCHANGED <<rheld, called, submit, pmVars, lightVars, threadVars, progVars,
                   clearVars, modVars>>

\* lines 175-197 raise: an except clause is entered
RRaise(j) ==
    /\ rrun[j].pc \in {"html_ready", "completed"}
    /\ rrun' = [rrun EXCEPT ![j].pc = "failed"]
    /\ UNCHANGED <<rjobs, rheld, called, submit, pmVars, lightVars, threadVars, progVars,
                   clearVars, modVars>>

\* lines 220-224: the finally clause (set_active_job(None), clear_queue), and
\* the call returns
RFinally(j) ==
    /\ rrun[j].pc = "finally"
    /\ rrun' = [rrun EXCEPT ![j] = [pc |-> "done", had |-> FALSE, wrote |-> <<>>]]
    /\ active' = 0
    /\ pqueues' = ClearQueue(pqueues, j)
    /\ UNCHANGED <<rjobs, rheld, called, submit, pmVars, lightVars, threadVars,
                   patch, bars, clock, hook, hrun, posts, put, got, clearVars, modVars>>

\* get_job of worker/app/jobs.py returns the stored dict itself
RGetJob(j) ==
    /\ rheld' = IF j \in DOMAIN rjobs
                  THEN [job |-> j, kind |-> "reference", value |-> rjobs[j],
                        modified |-> FALSE]
                  ELSE NoHeld
    /\ rheld' # rheld
    /\ UNCHANGED <<rjobs, rrun, called, submit, pmVars, lightVars, threadVars, progVars,
                   clearVars, modVars>>

\* the value the caller of get_job holds, as it reads now
HeldValue ==
    IF rheld.kind = "reference" THEN rjobs[rheld.job] ELSE rheld.value

\* the caller assigns to a key of the value it holds
RModify ==
    /\ rheld.kind # None
    /\ ~ rheld.modified
    /\ IF rheld.kind = "reference"
         THEN /\ rjobs' = [rjobs EXCEPT ![rheld.job].file_id = "changed"]
              /\ rheld' = [rheld EXCEPT !.modified = TRUE]
         ELSE /\ rjobs' = rjobs
              /\ rheld' = [rheld EXCEPT !.modified = TRUE, !.value.file_id = "changed"]
    /\ UNCHANGED <<rrun, called, submit, pmVars, lightVars, threadVars, progVars,
                   clearVars, modVars>>

InitReg ==
    /\ InitRegIdle
    /\ InitProgIdle
    /\ InitClearIdle
    /\ InitModIdle
    /\ InitLightIdle
    /\ InitThreadIdle
    /\ jobs = <<>>
    /\ processes = <<>>
    /\ queues = {}
    /\ lock = "free"
    /\ proc = [p \in Procs |-> NoProc]
    /\ cancel = NoCancel
    /\ polled = [job |-> 0, status |-> None]
    /\ cancelled = {}

NextReg ==
    \/ \E j \in RegIds : RCreateJob(j)
    \/ \E j \in RegIds : RRun(j)
    \/ \E j \in RegIds : RWrite(j)
    \/ \E j \in RegIds : RRaise(j)
    \/ \E j \in RegIds : RFinally(j)
    \/ \E j \in RegIds : RGetJob(j)
    \/ RModify

SpecReg == InitReg /\ [][NextReg]_vars

(***************************************************************************)
(* The two workers side by side: the worker process of the ProcessManager  *)
(* and the run_conversion thread, started for ids with or without a record,*)
(* with update_job called on the ProcessManager.                           *)
(***************************************************************************)
\* the fields callers of update_job pass
UpdateStatuses == {"processing", "failed"}

\* an update_job that does not take the lock
UpdateJobUnlocked(j, status) ==
    /\ called.seq < MaxUpdates
    /\ jobs' = UpdateJobIn(jobs, j, status)
    /\ called' = [job |-> j, status |-> status, seq |-> called.seq + 1]
    /\ UNCHANGED <<processes, queues, lock, proc, cancel, polled, cancelled,
                   rjobs, rrun, rheld, submit, lightVars, threadVars, progVars,
                   clearVars, modVars>>

\* ProcessManager.update_job
UpdateJob(j, status) ==
    /\ lock = "free"
    /\ called.seq < MaxUpdates
    /\ jobs' = UpdateJobIn(jobs, j, status)
    /\ called' = [job |-> j, status |-> status, seq |-> called.seq + 1]
    /\ UNCHANGED <<processes, queues, lock, proc, cancel, polled, cancelled,
                   rjobs, rrun, rheld, submit, lightVars, threadVars, progVars,
                   clearVars, modVars>>

\* start_job, lines 69-84, for an id with or without a record
StartJobAnyId(j) ==
    /\ lock = "free"
    /\ \E p \in Procs : proc[p].call = "idle"
    /\ queues' = queues \cup {j}
    /\ proc' = [proc EXCEPT ![NextSlot] =
                  [@ EXCEPT !.call = "spawned", !.job = j, !.alive = TRUE,
                            !.pc = "processing", !.had = j \in DOMAIN jobs]]
    /\ cancelled' = cancelled \ {j}
    /\ UNCHANGED <<jobs, processes, lock, cancel, polled, lightVars, threadVars, regVars, progVars,
                   clearVars, modVars>>

InitWork == InitPoll

NextWork ==
    \/ \E j \in WorkIds : CreateJob(j)
    \/ \E j \in WorkIds, status \in UpdateStatuses : UpdateJob(j, status)
    \/ \E j \in WorkIds : StartJobAnyId(j)
    \/ \E p \in Procs : StartJobTrack(p)
    \/ \E p \in Procs : WorkerRead(p)
    \/ \E p \in Procs : ManagerApply(p)
    \/ \E p \in Procs : WorkerRaise(p)
    \/ \E p \in Procs : WorkerExit(p)
    \/ \E p \in Procs : Die(p)
    \/ \E j \in WorkIds : CancelTerminate(j)
    \/ CancelJoin1
    \/ CancelJoin2
    \/ CancelWrite
    \/ CancelReturned
    \/ \E j \in WorkIds : RCreateJob(j)
    \/ \E j \in WorkIds : RRun(j)
    \/ \E j \in WorkIds : RWrite(j)
    \/ \E j \in WorkIds : RRaise(j)
    \/ \E j \in WorkIds : RFinally(j)

SpecWork == InitWork /\ [][NextWork]_vars

(***************************************************************************)
(* Submission: convert of worker/app/main.py and of workers/lightonocr,    *)
(* with the requests they reject.                                          *)
(***************************************************************************)
\* a convert handler that stores the record although it raised
StoredAlthoughRaised(reg, j, record, raised) ==
    [k \in DOMAIN reg \cup {j} |-> IF k = j THEN record ELSE reg[k]]

\* a convert handler that raised before its store leaves the registry as it
\* is; one that did not raise has stored the record under the new id
Stored(reg, j, record, raised) ==
    IF raised
      THEN reg
      ELSE [k \in DOMAIN reg \cup {j} |-> IF k = j THEN record ELSE reg[k]]

\* worker/app/main.py convert, lines 282-284: no uploaded file matches file_id
TConvertNotFound(j) ==
    /\ tlock = "free"
    /\ j \notin DOMAIN tjobs
    /\ \A k \in 1..(j-1) : k \in DOMAIN tjobs
    /\ submit.seq < MaxRejected
    /\ tjobs' = Stored(tjobs, j, NewThreadJob("file", "html"), TRUE)
    /\ submit' = [server |-> "worker", code |-> 404, seq |-> submit.seq + 1]
    /\ UNCHANGED <<tlock, twork, tpoll, rjobs, rrun, rheld, called, pmVars, lightVars, progVars,
                   clearVars, modVars>>

\* workers/lightonocr convert, lines 244-245: file_url is empty
LConvertNoUrl(j) ==
    /\ j \notin DOMAIN ljobs
    /\ \A k \in 1..(j-1) : k \in DOMAIN ljobs
    /\ submit.seq < MaxRejected
    /\ ljobs' = Stored(ljobs, j, NewLightJob("other"), TRUE)
    /\ submit' = [server |-> "lightonocr", code |-> 400, seq |-> submit.seq + 1]
    /\ UNCHANGED <<lresp, lstreams, rjobs, rrun, rheld, called, pmVars, threadVars, progVars,
                   clearVars, modVars>>

InitSubmit == InitThread

NextSubmit ==
    \/ \E j \in ThreadIds : TConvert(j)
    \/ \E j \in ThreadIds : TConvertNotFound(j)
    \/ \E j \in ThreadIds : TProcessing(j)
    \/ \E j \in ThreadIds : TCompletedStatus(j)
    \/ \E j \in ThreadIds : TCompletedResult(j)
    \/ \E j \in ThreadIds : TFailedStatus(j)
    \/ \E j \in ThreadIds : TFailedError(j)
    \/ \E j \in ThreadIds : TFinally(j)
    \/ \E j \in StreamIds, kind \in {"pdf", "image", "other"} : LConvert(j, kind)
    \/ \E j \in StreamIds : LConvertNoUrl(j)
    \/ \E j \in StreamIds : LProcessStart(j)
    \/ \E j \in StreamIds : LDownloadFailed(j)

SpecSubmit == InitSubmit /\ [][NextSubmit]_vars

(***************************************************************************)
(* worker/app/progress.py.  A bar is created, updated and closed by the    *)
(* thread that runs the conversion: in the thread-based worker by a        *)
(* run_conversion call inside _build_and_render_all (TrackedTqdm), in the  *)
(* serverless handler by run_conversion_sync (WebhookTqdm).                *)
(***************************************************************************)
\* the bars are told apart by their desc
Stage(b) == b

ProgressEvent(stage, current, total, started_at) ==
    [stage |-> stage, current |-> current, total |-> total, started_at |-> started_at]

\* get_queue: the queue of the job, created empty if the job has none
GetQueue(qs, j) ==
    IF j \in DOMAIN qs THEN qs
    ELSE [k \in DOMAIN qs \cup {j} |-> IF k = j THEN <<>> ELSE qs[k]]

\* a bar that tracks whenever a job is active or a callback is set, whatever
\* its total
TrackingWithoutTotal(on, total) == on

\* lines 70 and 127: `if job_id and self.total and self.total > 0`, and the
\* same test on the callback; a bar without a total has total 0 here
Tracking(on, total) == on /\ total > 0

\* get_queue(job_id).put(event)
QueuePut(qs, j, event) == [GetQueue(qs, j) EXCEPT ![j] = Append(@, event)]

\* a close that reports the count reached instead of the total
CloseCurrentAsCounted(bar) == bar.n

\* close: the current of the event a close emits is the total
CloseCurrent(bar) == bar.total

\* tqdm's update(n): the count grows by n, whatever the total
Counted(bar, n) == [bar EXCEPT !.n = @ + n, !.updates = @ + 1]

\* run_conversion is called in the thread-based worker, whose process installed
\* the queue patch
ThreadRun(j) == patch = "queue" /\ RRun(j)

\* the run_conversion call of job j is inside _build_and_render_all, line 175
Converting(j) == rrun[j].pc = "html_ready"

\* the bars are numbered in the order of their creation
NextBar(b) == bars[b].pc = "none" /\ \A c \in 1..(b-1) : bars[c].pc # "none"

\* TrackedTqdm.__init__, called in the conversion of job j
TrackedInit(b, j, total) ==
    /\ patch = "queue"
    /\ Converting(j)
    /\ NextBar(b)
    /\ LET job_id == active
           tracked == Tracking(job_id # 0, total)
           event == ProgressEvent(Stage(b), 0, total, clock)
       IN  /\ bars' = [bars EXCEPT ![b] =
                         [NoBar EXCEPT !.pc = "open", !.owner = j, !.stage = Stage(b),
                                       !.total = total, !.tracked = tracked,
                                       !.job_id = IF tracked THEN job_id ELSE 0,
                                       !.started_at = clock]]
           /\ pqueues' = IF tracked THEN QueuePut(pqueues, job_id, event) ELSE pqueues
           /\ put' = IF tracked THEN [put EXCEPT ![job_id] = Append(@, event)] ELSE put
    /\ UNCHANGED <<patch, active, clock, hook, hrun, posts, got,
                   pmVars, lightVars, threadVars, regVars, clearVars, modVars>>

\* TrackedTqdm.update(n)
TrackedUpdate(b, n) ==
    /\ patch = "queue"
    /\ bars[b].pc = "open"
    /\ Converting(bars[b].owner)
    /\ bars[b].updates < MaxBarUpdates
    /\ LET bar == Counted(bars[b], n)
           event == ProgressEvent(bar.stage, bar.n, bar.total, bar.started_at)
       IN  /\ bars' = [bars EXCEPT ![b] = bar]
           /\ pqueues' = IF bar.tracked THEN QueuePut(pqueues, bar.job_id, event) ELSE pqueues
           /\ put' = IF bar.tracked THEN [put EXCEPT ![bar.job_id] = Append(@, event)] ELSE put
    /\ UNCHANGED <<patch, active, clock, hook, hrun, posts, got,
                   pmVars, lightVars, threadVars, regVars, clearVars, modVars>>

\* TrackedTqdm.close()
TrackedClose(b) ==
    /\ patch = "queue"
    /\ bars[b].pc = "open"
    /\ Converting(bars[b].owner)
    /\ LET bar == bars[b]
           event == ProgressEvent(bar.stage, CloseCurrent(bar), bar.total, bar.started_at)
       IN  /\ bars' = [bars EXCEPT ![b].pc = "closed"]
           /\ pqueues' = IF bar.tracked THEN QueuePut(pqueues, bar.job_id, event) ELSE pqueues
           /\ put' = IF bar.tracked THEN [put EXCEPT ![bar.job_id] = Append(@, event)] ELSE put
    /\ UNCHANGED <<patch, active, clock, hook, hrun, posts, got,
                   pmVars, lightVars, threadVars, regVars, clearVars, modVars>>

\* the consumer of job j: get_queue(job_id), and the next event if there is one
ConsumerGet(j) ==
    /\ patch = "queue"
    /\ rrun[j].pc # "idle"
    /\ LET qs == GetQueue(pqueues, j)
       IN  IF qs[j] = <<>>
             THEN /\ pqueues' = qs
                  /\ got' = got
             ELSE /\ pqueues' = [qs EXCEPT ![j] = Tail(@)]
                  /\ got' = [got EXCEPT ![j] = Append(@, Head(qs[j]))]
    /\ pqueues' # pqueues
    /\ UNCHANGED <<patch, active, bars, clock, hook, hrun, posts, put,
                   pmVars, lightVars, threadVars, regVars, clearVars, modVars>>

(***************************************************************************)
(* converter/app/handler.py with WebhookTqdm.                              *)
(***************************************************************************)
\* what httpx.post does
PostOutcomes == {"ok", "error", "timeout"}

\* a send_progress without its try statement: what the post raises reaches
\* the bar and the conversion
PostRaisesUncaught(outcome) == outcome # "ok"

\* send_progress, lines 46-59: whether the call raises
PostRaises(outcome) == FALSE

\* the callback is called: the post is made at the current time
Posted(stage, current, total) ==
    Append(posts, [stage |-> stage, current |-> current, total |-> total, at |-> clock])

\* lines 32-70: the inputs are read, the callback is set or cleared, the
\* temporary file is created
HStart(file_url, url) ==
    /\ patch = "webhook"
    /\ hrun.pc = "idle"
    /\ IF file_url
         THEN /\ hrun' = [hrun EXCEPT !.pc = "download", !.temp = "present"]
              /\ hook' = url
         ELSE /\ hrun' = [hrun EXCEPT !.pc = "returned", !.result = "missing_file_url"]
              /\ hook' = hook
    /\ UNCHANGED <<patch, pqueues, active, bars, clock, posts, put, got,
                   pmVars, lightVars, threadVars, regVars, clearVars, modVars>>

\* lines 76-77: the download raised httpx.HTTPError
HDownloadFailed ==
    /\ hrun.pc = "download"
    /\ hrun' = [hrun EXCEPT !.pc = "returned", !.result = "download_error"]
    /\ UNCHANGED <<patch, pqueues, active, bars, clock, hook, posts, put, got,
                   pmVars, lightVars, threadVars, regVars, clearVars, modVars>>

\* lines 72-82: the file is there and run_conversion_sync is called
HDownloaded(conv) ==
    /\ hrun.pc = "download"
    /\ hrun' = [hrun EXCEPT !.pc = "converting", !.conv = conv]
    /\ UNCHANGED <<patch, pqueues, active, bars, clock, hook, posts, put, got,
                   pmVars, lightVars, threadVars, regVars, clearVars, modVars>>

\* the conversion is running and no exception has ended it
InConversion == hrun.pc = "converting" /\ ~ hrun.raised

\* WebhookTqdm.__init__
WebhookInit(b, total, outcome) ==
    /\ patch = "webhook"
    /\ InConversion
    /\ NextBar(b)
    /\ LET tracked == Tracking(hook, total)
       IN  /\ bars' = [bars EXCEPT ![b] =
                         [NoBar EXCEPT !.pc = "open", !.stage = Stage(b), !.total = total,
                                       !.tracked = tracked, !.last_sent = 0]]
           /\ posts' = IF tracked THEN Posted(Stage(b), 0, total) ELSE posts
           /\ hrun' = [hrun EXCEPT !.raised = tracked /\ PostRaises(outcome),
                               !.lost = IF tracked /\ outcome # "ok" THEN TRUE ELSE @]
           /\ ~ tracked => outcome = "ok"
    /\ UNCHANGED <<patch, pqueues, active, clock, hook, put, got,
                   pmVars, lightVars, threadVars, regVars, clearVars, modVars>>

\* lines 138-141: the callback is called if 0.5 s have passed since the last
\* call made by update, or if the count has reached the total
Sends(bar) == IF clock - bar.last_sent >= Throttle THEN TRUE ELSE bar.n >= bar.total

\* WebhookTqdm.update(n)
WebhookUpdate(b, n, outcome) ==
    /\ patch = "webhook"
    /\ InConversion
    /\ bars[b].pc = "open"
    /\ bars[b].updates < MaxBarUpdates
    /\ LET bar == Counted(bars[b], n)
           sends == bar.tracked /\ Sends(bar)
       IN  /\ bars' = [bars EXCEPT ![b] =
                         IF sends /\ ~ PostRaises(outcome)
                           THEN [bar EXCEPT !.last_sent = clock] ELSE bar]
           /\ posts' = IF sends THEN Posted(bar.stage, bar.n, bar.total) ELSE posts
           /\ hrun' = [hrun EXCEPT !.raised = sends /\ PostRaises(outcome),
                               !.lost = IF sends /\ outcome # "ok" THEN TRUE ELSE @]
           /\ ~ sends => outcome = "ok"
    /\ UNCHANGED <<patch, pqueues, active, clock, hook, put, got,
                   pmVars, lightVars, threadVars, regVars, clearVars, modVars>>

\* WebhookTqdm.close()
WebhookClose(b, outcome) ==
    /\ patch = "webhook"
    /\ InConversion
    /\ bars[b].pc = "open"
    /\ LET bar == bars[b]
       IN  /\ bars' = [bars EXCEPT ![b].pc = "closed"]
           /\ posts' = IF bar.tracked
                         THEN Posted(bar.stage, CloseCurrent(bar), bar.total)
                         ELSE posts
           /\ hrun' = [hrun EXCEPT !.raised = bar.tracked /\ PostRaises(outcome),
                               !.lost = IF bar.tracked /\ outcome # "ok" THEN TRUE ELSE @]
           /\ ~ bar.tracked => outcome = "ok"
    /\ UNCHANGED <<patch, pqueues, active, clock, hook, put, got,
                   pmVars, lightVars, threadVars, regVars, clearVars, modVars>>

\* time passes during the conversion
Tick ==
    /\ patch = "webhook"
    /\ InConversion
    /\ clock < Epoch + MaxTicks
    /\ clock' = clock + 1
    /\ UNCHANGED <<patch, pqueues, active, bars, hook, hrun, posts, put, got,
                   pmVars, lightVars, threadVars, regVars, clearVars, modVars>>

\* lines 88 and 91-93: run_conversion_sync returned; the finally clause
HConverted ==
    /\ InConversion
    /\ hrun.conv = "ok"
    /\ hrun' = [hrun EXCEPT !.pc = "returned", !.result = "result", !.temp = "removed"]
    /\ hook' = FALSE
    /\ UNCHANGED <<patch, pqueues, active, bars, clock, posts, put, got,
                   pmVars, lightVars, threadVars, regVars, clearVars, modVars>>

\* lines 89-93: an exception reached the try statement; the finally clause
HConversionFailed ==
    /\ hrun.pc = "converting"
    /\ IF hrun.raised THEN TRUE ELSE hrun.conv = "raises"
    /\ hrun' = [hrun EXCEPT !.pc = "returned", !.result = "conversion_error",
                            !.temp = "removed"]
    /\ hook' = FALSE
    /\ UNCHANGED <<patch, pqueues, active, bars, clock, posts, put, got,
                   pmVars, lightVars, threadVars, regVars, clearVars, modVars>>

\* the process has installed one of the two patches; the jobs of the
\* thread-based worker have their records when run_conversion is called
InitProgress ==
    /\ patch \in {"queue", "webhook"}
    /\ pqueues = <<>>
    /\ active = 0
    /\ bars = [b \in Bars |-> NoBar]
    /\ clock = Epoch
    /\ hook = FALSE
    /\ hrun = NoHandler
    /\ posts = <<>>
    /\ put = [j \in RegIds |-> <<>>]
    /\ got = [j \in RegIds |-> <<>>]
    /\ InitClearIdle
    /\ InitModIdle
    /\ rjobs = [j \in RegIds |-> NewJob("file", "html")]
    /\ rrun = [j \in RegIds |-> NoRun]
    /\ rheld = NoHeld
    /\ called = NoCall
    /\ submit = NoSubmit
    /\ InitLightIdle
    /\ InitThreadIdle
    /\ jobs = <<>>
    /\ processes = <<>>
    /\ queues = {}
    /\ lock = "free"
    /\ proc = [p \in Procs |-> NoProc]
    /\ cancel = NoCancel
    /\ polled = [job |-> 0, status |-> None]
    /\ cancelled = {}

NextProgress ==
    \/ \E j \in RegIds : ThreadRun(j)
    \/ \E j \in RegIds : RWrite(j)
    \/ \E j \in RegIds : RRaise(j)
    \/ \E j \in RegIds : RFinally(j)
    \/ \E b \in Bars, j \in RegIds, total \in 0..MaxTotal : TrackedInit(b, j, total)
    \/ \E b \in Bars, n \in 0..MaxStep : TrackedUpdate(b, n)
    \/ \E b \in Bars : TrackedClose(b)
    \/ \E j \in RegIds : ConsumerGet(j)
    \/ \E file_url \in BOOLEAN, url \in BOOLEAN : HStart(file_url, url)
    \/ HDownloadFailed
    \/ \E conv \in {"ok", "raises"} : HDownloaded(conv)
    \/ \E b \in Bars, total \in 0..MaxTotal, outcome \in PostOutcomes :
         WebhookInit(b, total, outcome)
    \/ \E b \in Bars, n \in 0..MaxStep, outcome \in PostOutcomes : WebhookUpdate(b, n, outcome)
    \/ \E b \in Bars, outcome \in PostOutcomes : WebhookClose(b, outcome)
    \/ Tick
    \/ HConverted
    \/ HConversionFailed

SpecProgress == InitProgress /\ [][NextProgress]_vars

\* the serverless handler alone: the process has installed the webhook patch
InitHook == InitProgress /\ patch = "webhook"

NextHook ==
    \/ \E file_url \in BOOLEAN, url \in BOOLEAN : HStart(file_url, url)
    \/ HDownloadFailed
    \/ \E conv \in {"ok", "raises"} : HDownloaded(conv)
    \/ \E b \in Bars, total \in 0..MaxTotal, outcome \in PostOutcomes :
         WebhookInit(b, total, outcome)
    \/ \E b \in Bars, n \in 0..MaxStep, outcome \in PostOutcomes : WebhookUpdate(b, n, outcome)
    \/ \E b \in Bars, outcome \in PostOutcomes : WebhookClose(b, outcome)
    \/ Tick
    \/ HConverted
    \/ HConversionFailed

SpecHook == InitHook /\ [][NextHook]_vars

(***************************************************************************)
(* The ProcessManager with worker processes that the operating system may  *)
(* kill (resource exhaustion) at any point of their run.                   *)
(***************************************************************************)
\* the process is killed from outside the program; a store it has sent is
\* still applied by the manager process
OsKill(p) ==
    /\ Running(p)
    /\ proc' = [proc EXCEPT ![p] =
                  [@ EXCEPT !.alive = FALSE, !.had = FALSE, !.wrote = <<>>,
                            !.pc = IF proc[p].sent THEN @ ELSE "oskilled"]]
    /\ UNCHANGED <<jobs, processes, queues, lock, cancel, polled, cancelled,
                   lightVars, threadVars, regVars, progVars, clearVars, modVars>>

\* MaxPollProcs calls of start_job
InitKill == InitPoll

NextKill ==
    \/ \E j \in WorkIds : CreateJob(j)
    \/ \E j \in WorkIds : StartJobSpawn(j)
    \/ \E p \in Procs : StartJobTrack(p)
    \/ \E p \in Procs : WorkerRead(p)
    \/ \E p \in Procs : ManagerApply(p)
    \/ \E p \in Procs : WorkerRaise(p)
    \/ \E p \in Procs : WorkerExit(p)
    \/ \E p \in Procs : Die(p)
    \/ \E p \in Procs : OsKill(p)
    \/ \E j \in WorkIds : CancelFalse(j)
    \/ \E j \in WorkIds : CancelTerminate(j)
    \/ CancelJoin1
    \/ CancelJoin2
    \/ CancelWrite
    \/ CancelReturned
    \/ \E j \in WorkIds : CleanupFinished(j)

SpecKill == InitKill /\ [][NextKill]_vars

(***************************************************************************)
(* Claims about the ProcessManager.                                        *)
(***************************************************************************)
\* C1: the statuses successive get_job calls return for a job never move
\* backwards in pending < processing < html_ready < {completed, failed,
\* cancelled}, and a terminal status, once returned, is returned ever after.
C1_PolledStatusMonotone ==
    [][polled.job # 0 =>
          /\ Rank(polled'.status) >= Rank(polled.status)
          /\ (polled.status \in Terminal => polled'.status = polled.status)]_vars

\* C3: a cancel_job call made while a worker that start_job started for the id
\* is alive returns True, and when it has returned the status is cancelled and
\* that worker is not alive.
C3_CancelLiveJob ==
    (cancel.pc = "returned" /\ cancel.live # {}) =>
        /\ cancel.ret = TRUE
        /\ cancel.status = "cancelled"
        /\ \A p \in cancel.live : ~ proc[p].alive

\* C4: a cancel_job call made after the worker wrote completed or failed leaves
\* that status in the record.
C4_CancelKeepsTerminal ==
    (cancel.pc = "returned" /\ cancel.was \in {"completed", "failed"}) =>
        cancel.status = cancel.was

\* C5: cancel_job returns False and changes no record, handle or queue when no
\* process is tracked for the id or the tracked process has exited; every call
\* that follows a call that returned True for the id returns False and leaves
\* the status cancelled.
C5_CancelFalseChangesNothing ==
    [][\A j \in JobIds :
         (cancel.pc = "idle" /\ cancel'.pc # "idle" /\ cancel'.job = j) =>
            /\ (IF j \in DOMAIN processes THEN ~ proc[processes[j]].alive ELSE TRUE)
                  => /\ cancel'.pc = "returned"
                     /\ cancel'.ret = FALSE
                     /\ cancel'.status = StatusOf(j)
                     /\ UNCHANGED <<jobs, processes, queues, proc, lock>>
            /\ j \in cancelled
                  => /\ cancel'.pc = "returned"
                     /\ cancel'.ret = FALSE
                     /\ cancel'.status = "cancelled"
                     /\ UNCHANGED <<jobs, processes, queues, proc, lock>>]_vars

\* C6: cancel_job writes cancelled and drops the handle and the queue only
\* when the process is not alive.
C6_CancelledOnlyAfterDeath ==
    (cancel.pc = "returned" /\ cancel.ret = TRUE) => ~ proc[cancel.proc].alive

\* C7: once cancel_job has returned True the record stays cancelled: no later
\* write of a worker changes it.
C7_CancelledStands ==
    [][\A j \in DOMAIN jobs :
          jobs[j].status = "cancelled" => jobs'[j].status = "cancelled"]_vars

\* C2: in the in-memory server a status completed or failed, also failed as
\* set by cancel, is never followed by another status.
C2_LightTerminalStands ==
    [][\A j \in DOMAIN ljobs :
          ljobs[j].status \in {"completed", "failed"} =>
              ljobs'[j].status = ljobs[j].status]_vars

\* C8: at most one worker process is alive per job id.
C8_OneLiveWorkerPerJob ==
    \A j \in JobIds : Cardinality({p \in Procs : proc[p].job = j /\ proc[p].alive}) <= 1

\* C9: a reader that sees the status of a write sees the fields written with
\* it: get_job of the thread-based server answers completed with the result and
\* failed with the error of the write, and the records get_job of the
\* ProcessManager copies are whole.
C9_NoPartialWrite ==
    /\ \A j \in DOMAIN jobs :
          /\ jobs[j].status = "completed" => jobs[j].result # None
          /\ jobs[j].status = "failed" => jobs[j].error # None
          /\ jobs[j].status = "html_ready" => jobs[j].html_content # None
    /\ (tpoll.pc = "idle" /\ tpoll.saw = "completed") => tpoll.resp.result = "result"
    /\ (tpoll.pc = "idle" /\ tpoll.saw = "failed") => tpoll.resp.error = "error"

\* C10: a status poll for a job that exists answers with the job's status,
\* never with an internal error (500); not found (404) is the only other answer.
C10_PollAnswers ==
    /\ tpoll.resp.code \in {0, 200, 404}
    /\ tpoll.resp.code = 200 => tpoll.resp.status \in Statuses

\* C11: the value get_job returned is a snapshot: an update_job made after
\* get_job returned does not change the value the caller holds, and an
\* assignment by the caller to the value it holds does not change the record
\* of the registry.
C11_GetJobSnapshot ==
    [][/\ (rheld.kind # None /\ rheld' = rheld) => HeldValue' = HeldValue
       /\ (rheld.kind # None /\ ~ rheld.modified /\ rheld'.modified) => rjobs' = rjobs]_vars

\* C12: update_job for an id that has no record leaves the registry as it is
\* and creates no record, in the ProcessManager and in worker/app/jobs.py; and
\* no step of a worker process started for an id that has no record changes
\* the registry.
C12_NoRecordNoWrite ==
    [][/\ (called' # called /\ called'.job \notin DOMAIN jobs) => jobs' = jobs
       /\ \A p \in Procs :
            (proc'[p] # proc[p] /\ proc[p].call # "idle" /\ proc[p].job \notin DOMAIN jobs)
              => jobs' = jobs
       /\ \A j \in RegIds :
            (rrun'[j] # rrun[j] /\ rrun[j].pc # "idle" /\ j \notin DOMAIN rjobs)
              => rjobs' = rjobs]_vars

\* C12 witness: update_job has been called for an id without a record, and a
\* worker process and a run_conversion call have gone through all their status
\* writes for ids without a record.
C12_Witness ==
    /\ called.job # 0
    /\ called.job \notin DOMAIN jobs
    /\ \E p \in Procs : proc[p].pc = "exited" /\ proc[p].job \notin DOMAIN jobs
    /\ \E j \in RegIds : rrun[j].pc = "done" /\ j \notin DOMAIN rjobs

\* a run wrote processing first and one terminal status, last
ValidRun(wrote) ==
    /\ Len(wrote) >= 2
    /\ wrote[1] = "processing"
    /\ wrote[Len(wrote)] \in {"completed", "failed"}
    /\ \A i \in 1..(Len(wrote) - 1) : wrote[i] \notin {"completed", "failed"}

\* C13: for a job that has a record, a run of run_conversion_process that is
\* not killed, and a call of run_conversion, has written processing first and
\* exactly one terminal status last when it returns; completed is stored with
\* a result and failed with an error.
C13_OneTerminalWrite ==
    [][/\ \A p \in Procs :
            (proc[p].had /\ proc[p].alive /\ ~ proc'[p].alive /\ proc'[p].pc = "exited")
              => ValidRun(proc[p].wrote)
       /\ \A p \in Procs :
            (proc[p].sent /\ ~ proc'[p].sent)
              => /\ jobs'[proc[p].job].status = "completed" => jobs'[proc[p].job].result # None
                 /\ jobs'[proc[p].job].status = "failed" => jobs'[proc[p].job].error # None
       /\ \A j \in RegIds :
            (rrun[j].had /\ rrun[j].pc = "finally" /\ rrun'[j].pc = "done")
              => ValidRun(rrun[j].wrote)
       /\ \A j \in RegIds :
            (rrun'[j] # rrun[j] /\ j \in DOMAIN rjobs')
              => /\ rjobs'[j].status = "completed" => rjobs'[j].result # None
                 /\ rjobs'[j].status = "failed" => rjobs'[j].error # None]_vars

\* C13 witness: a worker process whose conversion raised after html_ready, and
\* a run_conversion call that went through, are about to return.
C13_Witness ==
    /\ \E p \in Procs :
         /\ proc[p].had
         /\ proc[p].pc = "finally"
         /\ proc[p].wrote = <<"processing", "html_ready", "failed">>
    /\ \E j \in RegIds :
         /\ rrun[j].had
         /\ rrun[j].pc = "finally"
         /\ rrun[j].wrote = <<"processing", "html_ready", "completed">>

\* C14: when a worker has finished a job, by success, by an exception in the
\* conversion or by a failed download, the job's local input file is gone.
C14_InputFileRemoved ==
    \A j \in DOMAIN ljobs : ljobs[j].pc = "done" => ljobs[j].file # "present"

\* the terminal messages among the messages of a stream
TerminalMessages(out) == SelectSeq(out, LAMBDA e : e.event \in {"completed", "failed"})

\* C15: a stream that has ended has sent exactly one terminal message, the
\* one of the status of its job, as its last message; no stream sends two.
C15_OneTerminalMessage ==
    \A s \in Streams :
        /\ Len(TerminalMessages(lstreams[s].out)) <= 1
        /\ lstreams[s].pc = "closed" =>
             /\ Len(TerminalMessages(lstreams[s].out)) = 1
             /\ lstreams[s].out[Len(lstreams[s].out)].event = ljobs[lstreams[s].job].status

\* C16: a stream opened for a job that is already completed or failed sends
\* exactly one terminal message and closes.
C16_LateStreamTerminal ==
    \A s \in Streams :
        (lstreams[s].late /\ lstreams[s].pc = "closed")
          => Len(TerminalMessages(lstreams[s].out)) = 1

\* the progress messages among the messages of a stream or of a job
ProgressMessages(out) == SelectSeq(out, LAMBDA e : e.event = "progress")

\* C17: the progress messages of a stream that has ended are the progress
\* messages its job emitted, in the order of emission, none dropped and none
\* twice, and none of them follows a terminal message.
C17_ProgressInOrder ==
    \A s \in Streams :
        /\ lstreams[s].pc = "closed" =>
             ProgressMessages(lstreams[s].out) = ProgressMessages(ljobs[lstreams[s].job].events)
        /\ \A i \in 1..Len(lstreams[s].out) : \A k \in (i+1)..Len(lstreams[s].out) :
             lstreams[s].out[i].event \in {"completed", "failed"}
               => lstreams[s].out[k].event # "progress"

C19_CancelTerminalJob ==
    [][(lresp' # lresp /\ lresp'.op = "cancel_job" /\ lresp'.was \in {"completed", "failed"})
         => /\ ljobs'[lresp'.job] = ljobs[lresp'.job]
            /\ lresp'.cancelled # TRUE
            /\ lresp'.status = ljobs[lresp'.job].status]_vars

\* C20: a submission that is rejected, for a file_id that matches no uploaded
\* file or for an empty file_url, creates no job record and starts no worker:
\* the job ids and the workers are the same before and after it.
C20_RejectedCreatesNothing ==
    [][submit' # submit =>
         /\ DOMAIN tjobs' = DOMAIN tjobs
         /\ twork' = twork
         /\ DOMAIN ljobs' = DOMAIN ljobs
         /\ ljobs' = ljobs]_vars

\* C20 witness: submissions have been rejected while both servers hold jobs.
C20_Witness ==
    /\ submit.seq = MaxRejected
    /\ DOMAIN tjobs # {}
    /\ DOMAIN ljobs # {}

(***************************************************************************)
(* Claims about the status response and the progress events.               *)
(***************************************************************************)
\* C21: a status response of the in-memory server holds a result only with
\* the status completed and an error only with the status failed, and never
\* both, whatever processing steps and cancel requests came before.
C21_ResponseFieldsOfStatus ==
    (lresp.op = "get_job_status" /\ lresp.code = 200) =>
        /\ lresp.result # None => lresp.status = "completed"
        /\ lresp.error # None => lresp.status = "failed"
        /\ ~ (lresp.result # None /\ lresp.error # None)

\* the events a tracked bar has emitted, in order: the events of its stage
\* put on the queues of its job, or the callbacks of its stage
Emitted(b) ==
    IF patch = "queue"
      THEN SelectSeq(put[bars[b].job_id], LAMBDA e : e.stage = bars[b].stage)
      ELSE SelectSeq(posts, LAMBDA e : e.stage = bars[b].stage)

\* C22: the first event a tracked bar emits, on the queue or to the webhook
\* callback, is (stage, 0, total), and the close of the bar emits (stage,
\* total, total), whatever updates were made or suppressed before.
C22_FirstAndLastEvent ==
    \A b \in Bars :
        bars[b].tracked =>
            /\ Len(Emitted(b)) >= 1
            /\ Emitted(b)[1].current = 0
            /\ Emitted(b)[1].total = bars[b].total
            /\ bars[b].pc = "closed" =>
                 /\ Emitted(b)[Len(Emitted(b))].current = bars[b].total
                 /\ Emitted(b)[Len(Emitted(b))].total = bars[b].total

\* C22 witness: a bar tracked by the webhook callback was closed before its
\* count reached its total, and one of its updates was suppressed.
C22_Witness ==
    \E b \in Bars :
        /\ patch = "webhook"
        /\ bars[b].tracked
        /\ bars[b].pc = "closed"
        /\ bars[b].n < bars[b].total
        /\ Len(Emitted(b)) < bars[b].updates + 2

\* C23: the events of one stage on a job's progress channel have the same
\* total and a current that never decreases, for every sequence of update(n)
\* calls with n >= 0 followed by close.
C23_CurrentNonDecreasing ==
    \A j \in RegIds :
        \A i \in 1..Len(put[j]) : \A k \in (i+1)..Len(put[j]) :
            put[j][i].stage = put[j][k].stage =>
                /\ put[j][i].total = put[j][k].total
                /\ put[j][i].current <= put[j][k].current

\* C24: of the webhook callbacks of one stage other than the (0, total) and
\* (total, total) callbacks, no two are sent less than 500 ms apart.
C24_WebhookThrottled ==
    \A i \in 1..Len(posts) : \A k \in (i+1)..Len(posts) :
        (/\ posts[i].stage = posts[k].stage
         /\ posts[i].current \notin {0, posts[i].total}
         /\ posts[k].current \notin {0, posts[k].total})
          => posts[k].at - posts[i].at >= Throttle

\* C25: a post of the webhook callback that fails, by an exception or a
\* timeout, does not reach the conversion: the handler returns what the
\* conversion of its input gives, the result or the error of the conversion.
C25_PostFailureContained ==
    (hrun.pc = "returned" /\ hrun.conv # None) =>
        hrun.result = IF hrun.conv = "raises" THEN "conversion_error" ELSE "result"

\* C25 witness: the handler has returned the result of a conversion during
\* which a post failed.
C25_Witness ==
    /\ hrun.pc = "returned"
    /\ hrun.result = "result"
    /\ hrun.lost
    /\ posts # <<>>

\* C26: every event put on the channel of a job is one the consumer has taken
\* or can still take through get_queue(job_id), in the order it was put, also
\* after the run_conversion call of the job has returned.
C26_NoEventLost ==
    \A j \in RegIds :
        put[j] = got[j] \o (IF j \in DOMAIN pqueues THEN pqueues[j] ELSE <<>>)

\* C27: in the thread-based worker every bar with a total, created in the
\* conversion of a job, is tracked and puts its events on the channel of that
\* job, also while another job is converting or after another job has finished.
C27_BarsOfOwnJob ==
    \A b \in Bars :
        (patch = "queue" /\ bars[b].pc # "none" /\ bars[b].total > 0)
          => (bars[b].tracked /\ bars[b].job_id = bars[b].owner)

(***************************************************************************)
(* Claims about dead workers, the registry lock and the escalation of      *)
(* cancel_job.                                                             *)
(***************************************************************************)
\* the workers started for job j have all exited, none with a store still to
\* be applied, the status is processing or html_ready, and no cancel_job call
\* is under way
Abandoned(j) ==
    /\ j \in DOMAIN jobs
    /\ jobs[j].status \in {"processing", "html_ready"}
    /\ \E p \in Procs : proc[p].job = j /\ proc[p].call # "idle"
    /\ \A p \in Procs : proc[p].job = j => (~ proc[p].alive /\ ~ proc[p].sent)
    /\ cancel.pc \in {"idle", "returned"}

C29_NoInterleavedWrite ==
    [][\A p \in Procs :
         (proc[p].sent /\ ~ proc'[p].sent /\ proc[p].job \in DOMAIN jobs)
           => proc[p].cur = jobs[proc[p].job]]_vars

\* C30: cancel_job calls kill() only on a process it has called terminate()
\* on and that is still alive after the first join; a process that has exited
\* by then gets no kill.
C30_TerminateBeforeKill ==
    [][\A p \in Procs :
         (proc'[p].sig = "kill" /\ proc[p].sig # "kill")
           => /\ proc[p].sig = "term"
              /\ proc[p].alive
              /\ cancel.pc = "join1"
              /\ cancel.proc = p]_vars

\* C30 witness: the process outlived the first join and cancel_job has called
\* kill() on it.
C30_Witness ==
    /\ cancel.pc = "join2"
    /\ proc[cancel.proc].alive
    /\ proc[cancel.proc].sig = "kill"

(***************************************************************************)
(* Claims about cleanup, the channel table, the lock of cancel_job, the    *)
(* fields of a record, the end of streams and the model cache.             *)
(***************************************************************************)
\* C31: cleanup_finished drops the handle and the queue of an id only when a
\* process is tracked for the id and has exited; it signals and ends no
\* process and changes no record.  (A step that drops a handle and is not
\* the return of cancel_job is a cleanup_finished call.)
C31_CleanupOnlyFinished ==
    [][(/\ DOMAIN processes' # DOMAIN processes
        /\ DOMAIN processes' \subseteq DOMAIN processes
        /\ cancel' = cancel)
         => /\ proc' = proc
            /\ jobs' = jobs
            /\ \E j \in DOMAIN processes :
                 /\ ~ proc[processes[j]].alive
                 /\ DOMAIN processes' = DOMAIN processes \ {j}
                 /\ \A k \in DOMAIN processes' : processes'[k] = processes[k]
                 /\ queues' = queues \ {j}]_vars

\* C31 witness: the tracked process of a job has exited by itself and its
\* handle and queue have been released without a cancellation.
C31_Witness ==
    \E p \in Procs :
        /\ proc[p].call = "tracked"
        /\ proc[p].pc = "exited"
        /\ proc[p].job \notin DOMAIN processes
        /\ proc[p].job \notin queues
        /\ proc[p].job \notin cancelled
        /\ cancel.pc = "idle"

\* C32: once run_conversion has cleared the progress channel of a job in its
\* finally block, no channel is registered for that id again: neither a later
\* get_queue of a consumer nor a late event of a bar creates it anew.
C32_ClearedChannelStaysGone ==
    \A j \in RegIds : rrun[j].pc = "done" => j \notin DOMAIN pqueues

\* the events of the stage of bar b, on every queue and among the posts
EventsOfBar(b) ==
    {e \in UNION {{put[j][i] : i \in 1..Len(put[j])} : j \in RegIds} : e.stage = Stage(b)}
      \cup {e \in {posts[i] : i \in 1..Len(posts)} : e.stage = Stage(b)}

ChannelTables ==
    UNION {[S -> {<<>>, <<ProgressEvent(1, 0, 1, Epoch)>>}] : S \in SUBSET RegIds}

\* the handle tables of the process manager
HandleTables == UNION {[S -> Procs] : S \in SUBSET JobIds}

InitClear ==
    /\ jobs = <<>>
    /\ processes \in HandleTables
    /\ queues \in SUBSET JobIds
    /\ lock = "free"
    /\ proc = [p \in Procs |-> NoProc]
    /\ cancel = NoCancel
    /\ polled = [job |-> 0, status |-> None]
    /\ cancelled = {}
    /\ InitLightIdle
    /\ InitThreadIdle
    /\ InitRegIdle
    /\ InitClearIdle
    /\ InitModIdle
    /\ patch = "queue"
    /\ pqueues \in ChannelTables
    /\ active = 0
    /\ bars = [b \in Bars |-> NoBar]
    /\ clock = Epoch
    /\ hook = FALSE
    /\ hrun = NoHandler
    /\ posts = <<>>
    /\ put = [j \in RegIds |-> <<>>]
    /\ got = [j \in RegIds |-> <<>>]

\* clear_queue(job_id)
ClearQueueCall(j) ==
    /\ Len(cleared) < MaxClears
    /\ pqueues' = ClearQueue(pqueues, j)
    /\ cleared' = Append(cleared, [table |-> "worker", id |-> j])
    /\ UNCHANGED <<patch, active, bars, clock, hook, hrun, posts, put, got,
                   pmVars, lightVars, threadVars, regVars, modVars>>

\* _cleanup_job(job_id), called with the lock held; an exception of
\* queue.close() is swallowed (lines 126-130)
CleanupJob(j) ==
    /\ Len(cleared) < MaxClears
    /\ processes' = CleanupProcesses(j)
    /\ queues' = CleanupQueues(j)
    /\ cleared' = Append(cleared, [table |-> "manager", id |-> j])
    /\ UNCHANGED <<jobs, lock, proc, cancel, polled, cancelled,
                   lightVars, threadVars, regVars, progVars, modVars>>

NextClear ==
    \/ \E j \in RegIds : ClearQueueCall(j)
    \/ \E j \in JobIds : CleanupJob(j)

SpecClear == InitClear /\ [][NextClear]_vars

\* the last two calls were made on the same table for the same id
ClearedTwice ==
    /\ Len(cleared) >= 2
    /\ cleared[Len(cleared)] = cleared[Len(cleared) - 1]

\* C33: clearing a channel twice leaves what clearing it once leaves, a
\* clear of an id without a channel changes nothing, a clear never touches
\* the channel of another id, and a clear is possible (does not raise) for
\* every id in every state; the same for _cleanup_job and its two tables.
C33_ClearIdempotent ==
    /\ [](\A j \in RegIds :
            LET once == ClearQueue(pqueues, j)
            IN  /\ ClearQueue(once, j) = once
                /\ j \notin DOMAIN once
                /\ j \notin DOMAIN pqueues => once = pqueues
                /\ \A k \in DOMAIN pqueues \ {j} : k \in DOMAIN once /\ once[k] = pqueues[k]
                /\ Len(cleared) < MaxClears => ENABLED ClearQueueCall(j))
    /\ [](\A j \in JobIds :
            /\ Len(cleared) < MaxClears => ENABLED CleanupJob(j)
            /\ j \notin DOMAIN CleanupProcesses(j)
            /\ j \notin CleanupQueues(j)
            /\ j \notin DOMAIN processes => CleanupProcesses(j) = processes
            /\ j \notin queues => CleanupQueues(j) = queues
            /\ \A k \in DOMAIN processes \ {j} :
                 k \in DOMAIN CleanupProcesses(j) /\ CleanupProcesses(j)[k] = processes[k]
            /\ \A k \in queues \ {j} : k \in CleanupQueues(j))
    /\ [][ClearedTwice' => (pqueues' = pqueues /\ processes' = processes /\ queues' = queues)]_vars

\* C33 witness: clear_queue was called twice in a row for one id, and the
\* channel of the other id still holds its event.
C33_Witness ==
    /\ ClearedTwice
    /\ cleared[1].table = "worker"
    /\ \E k \in RegIds : k # cleared[1].id /\ k \in DOMAIN pqueues /\ pqueues[k] # <<>>

(***************************************************************************)
(* get_or_create_models (worker/app/models.py) and get_or_create_model     *)
(* (worker-tts/app/models.py): the same code around a different loader.    *)
(* Each caller is a thread; the loader either returns a new object or      *)
(* raises.                                                                 *)
(***************************************************************************)
\* a lock every caller may enter at any time
LockIgnored == TRUE

\* `with _model_lock:` can be entered
LockFree == model_lock = 0

\* the object made by the next invocation of the loader
NewObject == loads.ok + 1

InitModels ==
    /\ InitModIdle
    /\ InitClearIdle
    /\ InitProgIdle
    /\ InitLightIdle
    /\ InitThreadIdle
    /\ InitRegIdle
    /\ jobs = <<>>
    /\ processes = <<>>
    /\ queues = {}
    /\ lock = "free"
    /\ proc = [p \in Procs |-> NoProc]
    /\ cancel = NoCancel
    /\ polled = [job |-> 0, status |-> None]
    /\ cancelled = {}

\* a thread calls get_or_create_models() and waits for the lock
ModelCall(c) ==
    /\ callers[c].pc = "idle"
    /\ callers' = [callers EXCEPT ![c].pc = "waiting"]
    /\ UNCHANGED <<model_cache, model_lock, loads,
                   pmVars, lightVars, threadVars, regVars, progVars, clearVars>>

\* `with _model_lock:` and the test `if _model_cache is None`
ModelEnter(c) ==
    /\ callers[c].pc = "waiting"
    /\ LockFree
    /\ model_lock' = c
    /\ callers' = [callers EXCEPT ![c].pc = IF model_cache = 0 THEN "loading" ELSE "cached"]
    /\ UNCHANGED <<model_cache, loads,
                   pmVars, lightVars, threadVars, regVars, progVars, clearVars>>

\* the loader returns an object, which is stored in the cache
ModelLoaded(c) ==
    /\ callers[c].pc = "loading"
    /\ model_cache' = NewObject
    /\ loads' = [loads EXCEPT !.ok = @ + 1]
    /\ callers' = [callers EXCEPT ![c].pc = "cached"]
    /\ UNCHANGED <<model_lock,
                   pmVars, lightVars, threadVars, regVars, progVars, clearVars>>

\* the loader raises: the cache stays None and the `with` releases the lock
ModelLoadFailed(c) ==
    /\ callers[c].pc = "loading"
    /\ loads.failed < MaxLoadFailures
    /\ loads' = [loads EXCEPT !.failed = @ + 1]
    /\ model_lock' = 0
    /\ callers' = [callers EXCEPT ![c].pc = "raised"]
    /\ UNCHANGED <<model_cache,
                   pmVars, lightVars, threadVars, regVars, progVars, clearVars>>

\* `return _model_cache`, releasing the lock
ModelReturn(c) ==
    /\ callers[c].pc = "cached"
    /\ callers' = [callers EXCEPT ![c].pc = "returned", ![c].got = model_cache]
    /\ model_lock' = 0
    /\ UNCHANGED <<model_cache, loads,
                   pmVars, lightVars, threadVars, regVars, progVars, clearVars>>

NextModels ==
    \/ \E c \in Callers : ModelCall(c)
    \/ \E c \in Callers : ModelEnter(c)
    \/ \E c \in Callers : ModelLoaded(c)
    \/ \E c \in Callers : ModelLoadFailed(c)
    \/ \E c \in Callers : ModelReturn(c)

SpecModels == InitModels /\ [][NextModels]_vars

\* C38: whatever the number of concurrent callers, the loader returns an
\* object at most once, and every caller that has returned holds that one
\* object, which is the cached one.
C38_LoadedOnce ==
    /\ loads.ok <= 1
    /\ \A c \in Callers :
         callers[c].pc = "returned" => (callers[c].got = model_cache /\ callers[c].got # 0)
    /\ \A c, d \in Callers :
         (callers[c].pc = "returned" /\ callers[d].pc = "returned")
           => callers[c].got = callers[d].got

\* C38 witness: the first invocation of the loader raised, a later caller
\* loaded the object while others were waiting, and two callers have
\* returned.
C38_Witness ==
    /\ loads.failed = 1
    /\ loads.ok = 1
    /\ \E c, d \in Callers :
         c # d /\ callers[c].pc = "returned" /\ callers[d].pc = "returned"

(***************************************************************************)
(* The process manager with every operation that takes its lock, and the   *)
(* death of the worker processes by a signal.                              *)
(***************************************************************************)
InitLock == InitPoll

NextLock ==
    \/ \E j \in WorkIds : CreateJob(j)
    \/ \E j \in WorkIds : StartJobSpawn(j)
    \/ \E p \in Procs : StartJobTrack(p)
    \/ \E p \in Procs : OsKill(p)
    \/ \E p \in Procs : Die(p)
    \/ \E j \in WorkIds : CancelFalse(j)
    \/ \E j \in WorkIds : CancelTerminate(j)
    \/ CancelJoin1
    \/ CancelJoin2
    \/ CancelWrite
    \/ CancelReturned
    \/ \E j \in WorkIds : CleanupFinished(j)
    \/ \E j \in WorkIds : GetJob(j)
    \/ \E j \in WorkIds, status \in UpdateStatuses : UpdateJob(j, status)

SpecLock == InitLock /\ [][NextLock]_vars

\* the step in which cancel_job writes the status, cleans up and returns
CancelFinishes == cancel.pc = "update" /\ cancel'.pc = "returned"

C36_FieldsOfStatus ==
    \A j \in DOMAIN jobs :
        /\ jobs[j].status = "cancelled" => jobs[j].result = None
        /\ jobs[j].error # None => jobs[j].status = "failed"

(***************************************************************************)
(* The streams under fair scheduling: the generator of an open stream is a *)
(* task of the event loop, and its wait_for returns with an event or, at   *)
(* the latest after 30 seconds, with a timeout.                            *)
(***************************************************************************)
StreamStep(s) == SEvent(s) \/ STimeout(s)

SpecStreamFair == SpecStream /\ \A s \in Streams : WF_vars(StreamStep(s))

\* C37: a stream that is open on a job whose processing has finished
\* eventually ends, also when another stream of the same job took the
\* terminal event from the queue.
C37_StreamEnds ==
    \A s \in Streams :
        (lstreams[s].pc = "open" /\ ljobs[lstreams[s].job].pc = "done")
          ~> lstreams[s].pc = "closed"

\* C37 witness: two streams of one job have ended and only one of them has
\* sent the terminal event.
C37_Witness ==
    \E s, t \in Streams :
        /\ s # t
        /\ lstreams[s].pc = "closed"
        /\ lstreams[t].pc = "closed"
        /\ lstreams[s].job = lstreams[t].job
        /\ ~ lstreams[t].late
        /\ ~ lstreams[s].late
        /\ TerminalMessages(lstreams[s].out) # <<>>
        /\ TerminalMessages(lstreams[t].out) = <<>>

=============================================================================
